---- MODULE Spec2Model ----
(***************************************************************************)
(* Workout generation and progression engine of go-greyskull               *)
(* (src/workout/calculator.go), with the program template of               *)
(* src/program/greyskull_lp.go and the data model of src/models/models.go. *)
(*                                                                         *)
(* Numbers.  Go's float64 weights are modelled as records [n, d]:          *)
(*   n  the decimal value the float stands for, in thousandths of a pound  *)
(*      (97.5 lb is n = 97500);                                            *)
(*   d  the sign of (float - n/1000) when n is a multiple of 2.5 lb, that  *)
(*      is, whether a float whose decimal reading sits on a rounding       *)
(*      boundary is in fact just below (-1), exactly on (0) or just above  *)
(*      (+1) it.  175 * 0.70 is 122.49999999999999 in Go: n = 122500,      *)
(*      d = -1.  Away from a boundary d is 0: no operation reads it there. *)
(* Percentages (0.55, 0.9, ...) are kept as integer hundredths; the error  *)
(* of their binary64 representation is computed where they are multiplied. *)
(* Generated UUIDs and the EnteredAt timestamp carry no behaviour and are  *)
(* left out of the records.                                                *)
(***************************************************************************)
EXTENDS Integers, Sequences, FiniteSets, TLC

VARIABLES pc, args, result, store

vars == <<pc, args, result, store>>

-----------------------------------------------------------------------------
(* models.LiftName and models.SetType constants *)

Squat == "Squat"
Deadlift == "Deadlift"
BenchPress == "BenchPress"
OverheadPress == "OverheadPress"

LiftNames == {Squat, Deadlift, BenchPress, OverheadPress}

WarmupSet == "WarmupSet"
WorkingSet == "WorkingSet"
AMRAPSet == "AMRAPSet"

SetTypes == {WarmupSet, WorkingSet, AMRAPSet}

-----------------------------------------------------------------------------
(* float64 arithmetic as the calculator uses it *)

\* An exactly representable float64 with decimal value n/1000.
F(n) == [n |-> n, d |-> 0]

\* x <= y on float64 values.
FLeq(x, y) == x.n < y.n \/ (x.n = y.n /\ x.d <= y.d)

\* x < y on float64 values.
FLt(x, y) == x.n < y.n \/ (x.n = y.n /\ x.d < y.d)

RECURSIVE Pow2(_)
Pow2(e) == IF e <= 0 THEN 1 ELSE 2 * Pow2(e - 1)

\* 2^m mod 100, without leaving 32-bit integers.
RECURSIVE Pow2Mod100(_)
Pow2Mod100(m) == IF m = 0 THEN 1 ELSE (2 * Pow2Mod100(m - 1)) % 100

\* Binary exponent of the percentage k/100: the least j with k/100 >= 2^-j.
RECURSIVE PctExp(_, _)
PctExp(k, j) == IF k * Pow2(j) >= 100 THEN j ELSE PctExp(k, j + 1)

\* floor(log2(n/1000)) for n >= 1000.
RECURSIVE Log2Floor(_, _)
Log2Floor(n, e) == IF 1000 * Pow2(e + 1) <= n THEN Log2Floor(n, e + 1) ELSE e

\* Error of the binary64 nearest to k/100, in hundredths of its last place:
\* the 53-bit significand is round(k * 2^(52+j) / 100).
PctErr(k) ==
    LET r == (k * Pow2Mod100(52 + PctExp(k, 0))) % 100
    IN  IF r = 0 THEN 0 ELSE IF r < 50 THEN 0 - r ELSE 100 - r

\* x * (k/100) in float64, for an exactly representable x (x.d = 0) given in
\* tenths of a pound.  The product of x and the binary64 of k/100 is rounded
\* to nearest: when its decimal value n is a multiple of 2.5 it comes out as
\* n exactly iff the carried error |x * err| is at most half a last place of
\* n, and otherwise lands on the side of the percentage's error.
FMul(x, k) ==
    LET n == (x.n * k) \div 100
        e == PctErr(k)
        abse == IF e < 0 THEN 0 - e ELSE e
        j == PctExp(k, 0)
        E == Log2Floor(n, 0)
    IN  IF k = 0 \/ n = 0 \/ n % 2500 # 0 \/ e = 0 THEN F(n)
        ELSE IF x.n * abse <= 100000 * Pow2(j + E - 1) THEN F(n)
        ELSE [n |-> n, d |-> IF e < 0 THEN -1 ELSE 1]

\* x + y in float64 for values whose sum is exact or off every boundary.
FAdd(x, y) == F(x.n + y.n)

-----------------------------------------------------------------------------
(* src/workout/calculator.go *)

\* Mutant: rounds to the nearest multiple of 2.5 instead of down.
RoundDown2_5_Nearest(input) == F(((input.n + 1250) \div 2500) * 2500)

\* Mutant: the greatest multiple of 2.5 strictly below the input.
RoundDown2_5_Strict(input) ==
    LET q == input.n \div 2500
    IN  IF input.n % 2500 = 0 /\ input.d <= 0 THEN F((q - 1) * 2500)
        ELSE F(q * 2500)

\* math.Floor(input/2.5) * 2.5
RoundDown2_5(input) ==
    LET q == input.n \div 2500
    IN  IF input.n % 2500 = 0 /\ input.d < 0 THEN F((q - 1) * 2500)
        ELSE F(q * 2500)

\* Mutant: the warmup floor excludes 85 itself (weight < 85.0).
CalculateWarmupSets_Lt(weight, setTemplates) ==
    IF FLt(weight, F(85000)) THEN << >>
    ELSE [i \in 1..Len(setTemplates) |->
            LET tpl == setTemplates[i]
            IN  [Weight |-> IF tpl.WeightPercentage > 0
                              THEN RoundDown2_5(FMul(weight, tpl.WeightPercentage))
                              ELSE F(45000),
                 TargetReps |-> tpl.Reps,
                 ActualReps |-> 0,
                 Type |-> tpl.Type,
                 Order |-> i]]

\* Mutant: the percentage of the working weight is not rounded.
CalculateWarmupSets_NoRound(weight, setTemplates) ==
    IF FLeq(weight, F(85000)) THEN << >>
    ELSE [i \in 1..Len(setTemplates) |->
            LET tpl == setTemplates[i]
            IN  [Weight |-> IF tpl.WeightPercentage > 0
                              THEN FMul(weight, tpl.WeightPercentage)
                              ELSE F(45000),
                 TargetReps |-> tpl.Reps,
                 ActualReps |-> 0,
                 Type |-> tpl.Type,
                 Order |-> i]]

\* Mutant: a 0.0 percentage is multiplied like any other, no bar weight.
CalculateWarmupSets_NoBar(weight, setTemplates) ==
    IF FLeq(weight, F(85000)) THEN << >>
    ELSE [i \in 1..Len(setTemplates) |->
            LET tpl == setTemplates[i]
            IN  [Weight |-> RoundDown2_5(FMul(weight, tpl.WeightPercentage)),
                 TargetReps |-> tpl.Reps,
                 ActualReps |-> 0,
                 Type |-> tpl.Type,
                 Order |-> i]]

CalculateWarmupSets(weight, setTemplates) ==
    IF FLeq(weight, F(85000)) THEN << >>
    ELSE [i \in 1..Len(setTemplates) |->
            LET tpl == setTemplates[i]
            IN  [Weight |-> IF tpl.WeightPercentage > 0
                              THEN RoundDown2_5(FMul(weight, tpl.WeightPercentage))
                              ELSE F(45000),
                 TargetReps |-> tpl.Reps,
                 ActualReps |-> 0,
                 Type |-> tpl.Type,
                 Order |-> i]]

\* Mutant: working sets never go below the 45 lb bar.
CalculateWorkingSets_BarFloor(weight, setTemplates) ==
    LET r == RoundDown2_5(weight)
        w == IF FLt(r, F(45000)) THEN F(45000) ELSE r
    IN  [i \in 1..Len(setTemplates) |->
            LET tpl == setTemplates[i]
            IN  [Weight |-> w,
                 TargetReps |-> tpl.Reps,
                 ActualReps |-> 0,
                 Type |-> tpl.Type,
                 Order |-> i]]

\* Mutant: the working weight is used as given, unrounded.
CalculateWorkingSets_NoRound(weight, setTemplates) ==
    [i \in 1..Len(setTemplates) |->
        LET tpl == setTemplates[i]
        IN  [Weight |-> weight,
             TargetReps |-> tpl.Reps,
             ActualReps |-> 0,
             Type |-> tpl.Type,
             Order |-> i]]

CalculateWorkingSets(weight, setTemplates) ==
    LET w == RoundDown2_5(weight)
    IN  [i \in 1..Len(setTemplates) |->
            LET tpl == setTemplates[i]
            IN  [Weight |-> w,
                 TargetReps |-> tpl.Reps,
                 ActualReps |-> 0,
                 Type |-> tpl.Type,
                 Order |-> i]]

\* Mutant: the remainder is shifted into 1 .. totalDays, a day too far.
GetWorkoutDay_Shifted(currentDay, totalDays) == (currentDay % totalDays) + 1

GetWorkoutDay(currentDay, totalDays) ==
    LET mod == currentDay % totalDays
    IN  IF mod = 0 THEN totalDays ELSE mod

\* A nil pointer, a nil map, uuid.Nil and a nil error.
Nil == [nil |-> TRUE]
NilUUID == "00000000-0000-0000-0000-000000000000"
NoError == << >>

\* Mutant: the warmup floor is applied to the rounded working weight.
BuildLift_RoundedFloor(liftTemplate, currentWeight) ==
    LET warmupSets == CalculateWarmupSets(RoundDown2_5(currentWeight),
                                          liftTemplate.WarmupSets)
        workingSets == CalculateWorkingSets(currentWeight, liftTemplate.WorkingSets)
        renumbered == [i \in 1..Len(workingSets) |->
                          [workingSets[i] EXCEPT !.Order = Len(warmupSets) + i]]
    IN  [LiftName |-> liftTemplate.LiftName, Sets |-> warmupSets \o renumbered]

\* Mutant: the working sets keep the order numbers CalculateWorkingSets gave.
BuildLift_NoRenumber(liftTemplate, currentWeight) ==
    LET warmupSets == CalculateWarmupSets(currentWeight, liftTemplate.WarmupSets)
        workingSets == CalculateWorkingSets(currentWeight, liftTemplate.WorkingSets)
    IN  [LiftName |-> liftTemplate.LiftName, Sets |-> warmupSets \o workingSets]

\* The body of the loop over workoutTemplate.Lifts for a lift whose current
\* weight is tracked: warmup sets, then the working sets renumbered after them.
BuildLift(liftTemplate, currentWeight) ==
    LET warmupSets == CalculateWarmupSets(currentWeight, liftTemplate.WarmupSets)
        workingSets == CalculateWorkingSets(currentWeight, liftTemplate.WorkingSets)
        renumbered == [i \in 1..Len(workingSets) |->
                          [workingSets[i] EXCEPT !.Order = Len(warmupSets) + i]]
    IN  [LiftName |-> liftTemplate.LiftName, Sets |-> warmupSets \o renumbered]

\* The loop over workoutTemplate.Lifts from position i on, exercises being
\* the workout as assembled so far.
RECURSIVE NextWorkoutLoop(_, _, _, _)
NextWorkoutLoop(lifts, i, userProgram, workout) ==
    IF i > Len(lifts) THEN [workout |-> workout, err |-> NoError]
    ELSE IF lifts[i].LiftName \notin DOMAIN userProgram.CurrentWeights
    THEN [workout |-> Nil,
          err |-> <<"current weight not found for lift", lifts[i].LiftName>>]
    ELSE NextWorkoutLoop(lifts, i + 1, userProgram,
             [workout EXCEPT !.Exercises =
                 Append(@, BuildLift(lifts[i],
                                     userProgram.CurrentWeights[lifts[i].LiftName]))])

\* Mutant: the workout carries the stored day, not the resolved one.
CalculateNextWorkout_StoredDay(user, program) ==
    IF user.CurrentProgram = NilUUID
    THEN [workout |-> Nil, err |-> <<"no current program set for user">>]
    ELSE IF user.CurrentProgram \notin DOMAIN user.Programs
    THEN [workout |-> Nil, err |-> <<"current program not found in user programs">>]
    ELSE
      LET userProgram == user.Programs[user.CurrentProgram]
          workoutDay == GetWorkoutDay(userProgram.CurrentDay, Len(program.Workouts))
          workoutTemplate == program.Workouts[workoutDay]
      IN  NextWorkoutLoop(workoutTemplate.Lifts, 1, userProgram,
              [UserProgramID |-> userProgram.ID,
               Day |-> userProgram.CurrentDay,
               Exercises |-> << >>])

\* Mutant: the programs map is consulted before the nil check.
CalculateNextWorkout_LookupFirst(user, program) ==
    IF user.CurrentProgram \notin DOMAIN user.Programs
    THEN [workout |-> Nil, err |-> <<"current program not found in user programs">>]
    ELSE IF user.CurrentProgram = NilUUID
    THEN [workout |-> Nil, err |-> <<"no current program set for user">>]
    ELSE
      LET userProgram == user.Programs[user.CurrentProgram]
          workoutDay == GetWorkoutDay(userProgram.CurrentDay, Len(program.Workouts))
          workoutTemplate == program.Workouts[workoutDay]
      IN  NextWorkoutLoop(workoutTemplate.Lifts, 1, userProgram,
              [UserProgramID |-> userProgram.ID,
               Day |-> workoutDay,
               Exercises |-> << >>])

CalculateNextWorkout(user, program) ==
    IF user.CurrentProgram = NilUUID
    THEN [workout |-> Nil, err |-> <<"no current program set for user">>]
    ELSE IF user.CurrentProgram \notin DOMAIN user.Programs
    THEN [workout |-> Nil, err |-> <<"current program not found in user programs">>]
    ELSE
      LET userProgram == user.Programs[user.CurrentProgram]
          workoutDay == GetWorkoutDay(userProgram.CurrentDay, Len(program.Workouts))
          workoutTemplate == program.Workouts[workoutDay]
      IN  NextWorkoutLoop(workoutTemplate.Lifts, 1, userProgram,
              [UserProgramID |-> userProgram.ID,
               Day |-> workoutDay,
               Exercises |-> << >>])

\* GetAMRAPReps: the actual reps of the first AMRAP set of the lift.
GetAMRAPReps(lift) ==
    LET amraps == {i \in 1..Len(lift.Sets) : lift.Sets[i].Type = AMRAPSet}
        first == CHOOSE i \in amraps : \A k \in amraps : i <= k
    IN  IF amraps # {}
        THEN [reps |-> lift.Sets[first].ActualReps, err |-> NoError]
        ELSE [reps |-> 0, err |-> <<"no AMRAP set found for lift", lift.LiftName>>]

\* Mutant: exactly 5 reps still deloads (amrapReps <= 5).
CalculateNewWeight_Le5(currentWeight, amrapReps, baseIncrement, rules) ==
    LET newWeight ==
            IF amrapReps <= 5
            THEN FMul(currentWeight, rules.DeloadPercentage)
            ELSE IF amrapReps >= rules.DoubleThreshold
            THEN FAdd(currentWeight, FAdd(baseIncrement, baseIncrement))
            ELSE FAdd(currentWeight, baseIncrement)
    IN  RoundDown2_5(newWeight)

\* Mutant: the new weight is not rounded to the 2.5 grid.
CalculateNewWeight_NoRound(currentWeight, amrapReps, baseIncrement, rules) ==
    IF amrapReps < 5
    THEN FMul(currentWeight, rules.DeloadPercentage)
    ELSE IF amrapReps >= rules.DoubleThreshold
    THEN FAdd(currentWeight, FAdd(baseIncrement, baseIncrement))
    ELSE FAdd(currentWeight, baseIncrement)

\* Mutant: the new weight never goes below one 2.5 step.
CalculateNewWeight_MinStep(currentWeight, amrapReps, baseIncrement, rules) ==
    LET newWeight ==
            IF amrapReps < 5
            THEN FMul(currentWeight, rules.DeloadPercentage)
            ELSE IF amrapReps >= rules.DoubleThreshold
            THEN FAdd(currentWeight, FAdd(baseIncrement, baseIncrement))
            ELSE FAdd(currentWeight, baseIncrement)
        rounded == RoundDown2_5(newWeight)
    IN  IF FLt(rounded, F(2500)) THEN F(2500) ELSE rounded

\* Mutant: the double progression is tried before the deload.
CalculateNewWeight_DoubleFirst(currentWeight, amrapReps, baseIncrement, rules) ==
    LET newWeight ==
            IF amrapReps >= rules.DoubleThreshold
            THEN FAdd(currentWeight, FAdd(baseIncrement, baseIncrement))
            ELSE IF amrapReps < 5
            THEN FMul(currentWeight, rules.DeloadPercentage)
            ELSE FAdd(currentWeight, baseIncrement)
    IN  RoundDown2_5(newWeight)

CalculateNewWeight(currentWeight, amrapReps, baseIncrement, rules) ==
    LET newWeight ==
            IF amrapReps < 5
            THEN FMul(currentWeight, rules.DeloadPercentage)
            ELSE IF amrapReps >= rules.DoubleThreshold
            THEN FAdd(currentWeight, FAdd(baseIncrement, baseIncrement))
            ELSE FAdd(currentWeight, baseIncrement)
    IN  RoundDown2_5(newWeight)

\* Mutant: the current weight is looked up before the progression rule.
RECURSIVE ProgressionLoop_WeightFirst(_, _, _, _, _)
ProgressionLoop_WeightFirst(exercises, i, currentWeights, rules, newWeights) ==
    IF i > Len(exercises) THEN [weights |-> newWeights, err |-> NoError]
    ELSE
      LET lift == exercises[i]
          amrap == GetAMRAPReps(lift)
      IN  IF amrap.err # NoError
          THEN [weights |-> Nil,
                err |-> <<"failed to get AMRAP reps for", lift.LiftName>> \o amrap.err]
          ELSE IF lift.LiftName \notin DOMAIN currentWeights
          THEN [weights |-> Nil,
                err |-> <<"current weight not found for lift", lift.LiftName>>]
          ELSE IF lift.LiftName \notin DOMAIN rules.IncreaseRules
          THEN [weights |-> Nil,
                err |-> <<"no progression rule found for lift", lift.LiftName>>]
          ELSE ProgressionLoop_WeightFirst(exercises, i + 1, currentWeights, rules,
                   [newWeights EXCEPT ![lift.LiftName] =
                       CalculateNewWeight(currentWeights[lift.LiftName], amrap.reps,
                                          rules.IncreaseRules[lift.LiftName], rules)])

\* The loop over workout.Exercises from position i on, newWeights being the
\* map built so far.
RECURSIVE ProgressionLoop(_, _, _, _, _)
ProgressionLoop(exercises, i, currentWeights, rules, newWeights) ==
    IF i > Len(exercises) THEN [weights |-> newWeights, err |-> NoError]
    ELSE
      LET lift == exercises[i]
          amrap == GetAMRAPReps(lift)
      IN  IF amrap.err # NoError
          THEN [weights |-> Nil,
                err |-> <<"failed to get AMRAP reps for", lift.LiftName>> \o amrap.err]
          ELSE IF lift.LiftName \notin DOMAIN rules.IncreaseRules
          THEN [weights |-> Nil,
                err |-> <<"no progression rule found for lift", lift.LiftName>>]
          ELSE IF lift.LiftName \notin DOMAIN currentWeights
          THEN [weights |-> Nil,
                err |-> <<"current weight not found for lift", lift.LiftName>>]
          ELSE ProgressionLoop(exercises, i + 1, currentWeights, rules,
                   [newWeights EXCEPT ![lift.LiftName] =
                       CalculateNewWeight(currentWeights[lift.LiftName], amrap.reps,
                                          rules.IncreaseRules[lift.LiftName], rules)])

\* Mutant: the result is not seeded with the current weights, so it holds
\* only the lifts of the workout.
CalculateProgression_NoCopy(workout, currentWeights, rules) ==
    LET r == ProgressionLoop(workout.Exercises, 1, currentWeights, rules,
                 [liftName \in DOMAIN currentWeights |-> currentWeights[liftName]])
        performed == {workout.Exercises[i].LiftName : i \in 1..Len(workout.Exercises)}
    IN  IF r.err = NoError
        THEN [r EXCEPT !.weights = [liftName \in performed |-> r.weights[liftName]]]
        ELSE r

CalculateProgression(workout, currentWeights, rules) ==
    ProgressionLoop(workout.Exercises, 1, currentWeights, rules,
                    [liftName \in DOMAIN currentWeights |-> currentWeights[liftName]])

-----------------------------------------------------------------------------
(* src/program/greyskull_lp.go *)

GreyskullWarmupSets ==
    << [Reps |-> 5, WeightPercentage |-> 0, Type |-> WarmupSet],
       [Reps |-> 4, WeightPercentage |-> 55, Type |-> WarmupSet],
       [Reps |-> 3, WeightPercentage |-> 70, Type |-> WarmupSet],
       [Reps |-> 2, WeightPercentage |-> 85, Type |-> WarmupSet] >>

\* Mutant: the AMRAP set comes first.
GreyskullWorkingSets_AmrapFirst ==
    << [Reps |-> 5, WeightPercentage |-> 100, Type |-> AMRAPSet],
       [Reps |-> 5, WeightPercentage |-> 100, Type |-> WorkingSet],
       [Reps |-> 5, WeightPercentage |-> 100, Type |-> WorkingSet] >>

GreyskullWorkingSets ==
    << [Reps |-> 5, WeightPercentage |-> 100, Type |-> WorkingSet],
       [Reps |-> 5, WeightPercentage |-> 100, Type |-> WorkingSet],
       [Reps |-> 5, WeightPercentage |-> 100, Type |-> AMRAPSet] >>

\* Every lift of every day carries the same two template lists.
GreyskullLift(liftName) ==
    [LiftName |-> liftName,
     WarmupSets |-> GreyskullWarmupSets,
     WorkingSets |-> GreyskullWorkingSets]

GreyskullRules ==
    [IncreaseRules |-> (OverheadPress :> F(2500)) @@ (BenchPress :> F(2500))
                       @@ (Squat :> F(5000)) @@ (Deadlift :> F(5000)),
     DeloadPercentage |-> 90,
     DoubleThreshold |-> 10]

GreyskullLP ==
    [ID |-> "550e8400-e29b-41d4-a716-446655440000",
     Workouts |->
        << [Day |-> 1, Lifts |-> <<GreyskullLift(OverheadPress), GreyskullLift(Squat)>>],
           [Day |-> 2, Lifts |-> <<GreyskullLift(BenchPress), GreyskullLift(Deadlift)>>],
           [Day |-> 3, Lifts |-> <<GreyskullLift(OverheadPress), GreyskullLift(Squat)>>],
           [Day |-> 4, Lifts |-> <<GreyskullLift(BenchPress), GreyskullLift(Squat)>>],
           [Day |-> 5, Lifts |-> <<GreyskullLift(OverheadPress), GreyskullLift(Deadlift)>>],
           [Day |-> 6, Lifts |-> <<GreyskullLift(BenchPress), GreyskullLift(Squat)>>] >>,
     ProgressionRules |-> GreyskullRules]

-----------------------------------------------------------------------------
(* src/cmd/input.go: a CLIInputReader over the lines typed on stdin *)

\* strings.TrimSpace on the lines that are typed.
TrimSpace(line) ==
    CASE line = " +8 " -> "+8"
      [] line = "  "  -> ""
      [] OTHER        -> line

\* The lines strconv.Atoi accepts, with their values.
IntLines ==
    ("0" :> 0) @@ ("3" :> 3) @@ ("5" :> 5) @@ ("6" :> 6) @@ ("12" :> 12)
    @@ ("-1" :> -1) @@ ("+8" :> 8) @@ ("07" :> 7)

Atoi(input) ==
    IF input \in DOMAIN IntLines
    THEN [value |-> IntLines[input], err |-> NoError]
    ELSE [value |-> 0, err |-> <<"invalid syntax">>]

\* ReadLine on a scanner that has consumed pos - 1 lines of stdin.
ReadLine(stdin, pos) ==
    IF pos > Len(stdin)
    THEN [line |-> "", err |-> <<"no input available">>]
    ELSE [line |-> TrimSpace(stdin[pos]), err |-> NoError]

ReadInt(stdin, pos) ==
    LET read == ReadLine(stdin, pos)
        parsed == Atoi(read.line)
    IN  IF read.err # NoError THEN [value |-> 0, err |-> read.err]
        ELSE IF read.line = "" THEN [value |-> 0, err |-> <<"input cannot be empty">>]
        ELSE IF parsed.err # NoError
        THEN [value |-> 0, err |-> <<"invalid integer", read.line>>]
        ELSE [value |-> parsed.value, err |-> NoError]

\* Mutant: zero passes (value < 0).
ReadPositiveInt_ZeroOk(stdin, pos) ==
    LET read == ReadInt(stdin, pos)
    IN  IF read.err # NoError THEN read
        ELSE IF read.value < 0
        THEN [value |-> 0, err |-> <<"number must be positive, got", ToString(read.value)>>]
        ELSE read

ReadPositiveInt(stdin, pos) ==
    LET read == ReadInt(stdin, pos)
    IN  IF read.err # NoError THEN read
        ELSE IF read.value <= 0
        THEN [value |-> 0, err |-> <<"number must be positive, got", ToString(read.value)>>]
        ELSE read

-----------------------------------------------------------------------------
(* src/cmd/workout_log.go, src/cmd/program_start.go and the user service *)

\* An empty map[LiftName]int / map[uuid.UUID]*UserProgram.
EmptyMap == [k \in {} |-> 0]

\* m[k] = v on a Go map.
MapSet(m, k, v) == [x \in DOMAIN m \cup {k} |-> IF x = k THEN v ELSE m[x]]

\* The user that createUser stores.
NewUser ==
    [CurrentProgram |-> NilUUID, Programs |-> EmptyMap, WorkoutHistory |-> << >>]

\* The ids uuid.NewV7 hands out for user programs.
UUIDs == {"up-1", "up-2"}

\* The order in which startProgram asks for the starting weights.
StartLifts == <<Squat, Deadlift, BenchPress, OverheadPress>>

validatePositive(weight) ==
    IF FLeq(weight, F(0)) THEN <<"weight must be positive">> ELSE NoError

\* startProgram for the only program there is, the four weights as entered.
startProgram(user, startingWeights) ==
    LET invalid == {i \in 1..Len(StartLifts) :
                       validatePositive(startingWeights[StartLifts[i]]) # NoError}
        first == CHOOSE i \in invalid : \A k \in invalid : i <= k
        id == CHOOSE u \in UUIDs : u \notin DOMAIN user.Programs
        userProgram == [ID |-> id,
                        ProgramID |-> GreyskullLP.ID,
                        StartingWeights |-> startingWeights,
                        CurrentWeights |-> [l \in DOMAIN startingWeights |-> startingWeights[l]],
                        CurrentDay |-> 1]
    IN  IF invalid # {}
        THEN [user |-> user,
              err |-> <<"invalid weight for", StartLifts[first]>>
                      \o validatePositive(startingWeights[StartLifts[first]])]
        ELSE [user |-> [user EXCEPT !.Programs = MapSet(@, id, userProgram),
                                    !.CurrentProgram = id],
              err |-> NoError]

\* program.GetByID
GetByID(id) ==
    IF id = GreyskullLP.ID
    THEN [program |-> GreyskullLP, err |-> NoError]
    ELSE [program |-> Nil, err |-> <<"program not found">>]

\* UserService.GetCurrentUserWithProgram on the stored current user.
GetCurrentUserWithProgram(user) ==
    IF user.CurrentProgram = NilUUID
    THEN [userProgram |-> Nil, program |-> Nil,
          err |-> <<"no active program. Use 'greyskull program start' to begin a program">>]
    ELSE IF user.CurrentProgram \notin DOMAIN user.Programs
    THEN [userProgram |-> Nil, program |-> Nil,
          err |-> <<"current program not found in user programs">>]
    ELSE LET userProgram == user.Programs[user.CurrentProgram]
             found == GetByID(userProgram.ProgramID)
         IN  IF found.err # NoError
             THEN [userProgram |-> Nil, program |-> Nil,
                   err |-> <<"failed to load program">> \o found.err]
             ELSE [userProgram |-> userProgram, program |-> found.program,
                   err |-> NoError]

\* collectAMRAPReps: the loop over nextWorkout.Exercises from position i on,
\* the scanner having consumed pos - 1 lines.
RECURSIVE CollectAMRAPLoop(_, _, _, _, _)
CollectAMRAPLoop(exercises, i, stdin, pos, amrapReps) ==
    IF i > Len(exercises) THEN [amrapReps |-> amrapReps, err |-> NoError]
    ELSE
      LET exercise == exercises[i]
          read == ReadPositiveInt(stdin, pos)
      IN  IF ~ \E j \in 1..Len(exercise.Sets) : exercise.Sets[j].Type = AMRAPSet
          THEN CollectAMRAPLoop(exercises, i + 1, stdin, pos, amrapReps)
          ELSE IF read.err # NoError
          THEN [amrapReps |-> Nil,
                err |-> <<"failed to read AMRAP reps for", exercise.LiftName>> \o read.err]
          ELSE CollectAMRAPLoop(exercises, i + 1, stdin, pos + 1,
                                MapSet(amrapReps, exercise.LiftName, read.value))

collectAMRAPReps(nextWorkout, stdin) ==
    CollectAMRAPLoop(nextWorkout.Exercises, 1, stdin, 1, EmptyMap)

\* Mutant: a set that is not the AMRAP set is recorded at its target reps.
CompletedSet_Target(set, value) ==
    [set EXCEPT !.ActualReps = IF set.Type = AMRAPSet THEN value ELSE set.TargetReps]

\* The completed set collectWithFailure builds from a set and the entry.
CompletedSet(set, value) == [set EXCEPT !.ActualReps = value]

\* collectWithFailure: the loop over exercise.Sets from position j on.
RECURSIVE CollectSetsLoop(_, _, _, _, _)
CollectSetsLoop(exercise, j, stdin, pos, sets) ==
    IF j > Len(exercise.Sets) THEN [sets |-> sets, pos |-> pos, err |-> NoError]
    ELSE
      LET set == exercise.Sets[j]
          read == ReadInt(stdin, pos)
      IN  IF read.err # NoError
          THEN [sets |-> sets, pos |-> pos,
                err |-> <<"failed to read reps for", exercise.LiftName,
                          ToString(set.Order)>> \o read.err]
          ELSE IF read.value < 0
          THEN [sets |-> sets, pos |-> pos,
                err |-> <<"number cannot be negative for", exercise.LiftName,
                          ToString(set.Order)>>]
          ELSE CollectSetsLoop(exercise, j + 1, stdin, pos + 1,
                               Append(sets, CompletedSet(set, read.value)))

\* collectWithFailure: the loop over nextWorkout.Exercises from position i on.
RECURSIVE CollectWithFailureLoop(_, _, _, _, _)
CollectWithFailureLoop(exercises, i, stdin, pos, completed) ==
    IF i > Len(exercises) THEN [workout |-> completed, err |-> NoError]
    ELSE
      LET collected == CollectSetsLoop(exercises[i], 1, stdin, pos, << >>)
      IN  IF collected.err # NoError
          THEN [workout |-> Nil, err |-> collected.err]
          ELSE CollectWithFailureLoop(exercises, i + 1, stdin, collected.pos,
                   [completed EXCEPT !.Exercises =
                       Append(@, [LiftName |-> exercises[i].LiftName,
                                  Sets |-> collected.sets])])

collectWithFailure(nextWorkout, stdin) ==
    CollectWithFailureLoop(nextWorkout.Exercises, 1, stdin, 1,
        [UserProgramID |-> nextWorkout.UserProgramID,
         Day |-> nextWorkout.Day,
         Exercises |-> << >>])

\* amrapReps[liftName] on a Go map: the zero value for a missing key.
Lookup(amrapReps, liftName) ==
    IF liftName \in DOMAIN amrapReps THEN amrapReps[liftName] ELSE 0

\* Mutant: every set is recorded at the reps entered for the lift.
buildCompletedWorkout_AllEntered(template, amrapReps) ==
    [completed |->
        [UserProgramID |-> template.UserProgramID,
         Day |-> template.Day,
         Exercises |->
            [i \in 1..Len(template.Exercises) |->
                LET exercise == template.Exercises[i]
                IN  [LiftName |-> exercise.LiftName,
                     Sets |-> [j \in 1..Len(exercise.Sets) |->
                        [exercise.Sets[j] EXCEPT
                            !.ActualReps = Lookup(amrapReps, exercise.LiftName)]]]]],
     template |-> template]

\* buildCompletedWorkout: the workout it returns and the workout that the
\* template pointer refers to when it has returned.
buildCompletedWorkout(template, amrapReps) ==
    [completed |->
        [UserProgramID |-> template.UserProgramID,
         Day |-> template.Day,
         Exercises |->
            [i \in 1..Len(template.Exercises) |->
                LET exercise == template.Exercises[i]
                IN  [LiftName |-> exercise.LiftName,
                     Sets |-> [j \in 1..Len(exercise.Sets) |->
                        LET set == exercise.Sets[j]
                        IN  [Weight |-> set.Weight,
                             TargetReps |-> set.TargetReps,
                             ActualReps |-> IF set.Type = AMRAPSet
                                            THEN Lookup(amrapReps, exercise.LiftName)
                                            ELSE set.TargetReps,
                             Type |-> set.Type,
                             Order |-> set.Order]]]]],
     template |-> template]

\* Mutant: the day after the last day of the cycle is not wrapped.
NextDay_NoWrap(currentDay, program) == currentDay + 1

\* logWorkout, lines 90-95: the stored day after a logged workout.
NextDay(currentDay, program) ==
    LET nextDay == currentDay + 1
    IN  IF nextDay > Len(program.Workouts) THEN 1 ELSE nextDay

\* Mutant: the completed workout is not added to the history.
SaveCompleted_NoHistory(user, userProgram, program, completedWorkout) ==
    LET progression == CalculateProgression(completedWorkout,
                           userProgram.CurrentWeights, program.ProgressionRules)
    IN  IF progression.err # NoError
        THEN [user |-> user,
              err |-> <<"failed to calculate progression">> \o progression.err]
        ELSE [user |-> [user EXCEPT
                  !.Programs[userProgram.ID].CurrentWeights = progression.weights,
                  !.Programs[userProgram.ID].CurrentDay =
                      NextDay(userProgram.CurrentDay, program)],
              err |-> NoError]

\* Mutant: the history with the appended workout is saved before the
\* progression is computed.
SaveCompleted_AppendFirst(user, userProgram, program, completedWorkout) ==
    LET progression == CalculateProgression(completedWorkout,
                           userProgram.CurrentWeights, program.ProgressionRules)
        appended == [user EXCEPT !.WorkoutHistory = Append(@, completedWorkout)]
    IN  IF progression.err # NoError
        THEN [user |-> appended,
              err |-> <<"failed to calculate progression">> \o progression.err]
        ELSE [user |-> [appended EXCEPT
                  !.Programs[userProgram.ID].CurrentWeights = progression.weights,
                  !.Programs[userProgram.ID].CurrentDay =
                      NextDay(userProgram.CurrentDay, program)],
              err |-> NoError]

\* logWorkout from the append to the history on: the user record that the
\* repository holds when the command returns.
SaveCompleted(user, userProgram, program, completedWorkout) ==
    LET progression == CalculateProgression(completedWorkout,
                           userProgram.CurrentWeights, program.ProgressionRules)
    IN  IF progression.err # NoError
        THEN [user |-> user,
              err |-> <<"failed to calculate progression">> \o progression.err]
        ELSE [user |-> [user EXCEPT
                  !.WorkoutHistory = Append(@, completedWorkout),
                  !.Programs[userProgram.ID].CurrentWeights = progression.weights,
                  !.Programs[userProgram.ID].CurrentDay =
                      NextDay(userProgram.CurrentDay, program)],
              err |-> NoError]

\* logWorkout on the stored user, with the --fail flag and the lines typed.
logWorkout(user, failMode, stdin) ==
    LET loaded == GetCurrentUserWithProgram(user)
        next == CalculateNextWorkout(user, loaded.program)
        failed == collectWithFailure(next.workout, stdin)
        entered == collectAMRAPReps(next.workout, stdin)
    IN  IF loaded.err # NoError THEN [user |-> user, err |-> loaded.err]
        ELSE IF next.err # NoError
        THEN [user |-> user, err |-> <<"failed to calculate next workout">> \o next.err]
        ELSE IF failMode
        THEN IF failed.err # NoError
             THEN [user |-> user,
                   err |-> <<"failed to collect workout data">> \o failed.err]
             ELSE SaveCompleted(user, loaded.userProgram, loaded.program, failed.workout)
        ELSE IF entered.err # NoError
             THEN [user |-> user,
                   err |-> <<"failed to collect AMRAP reps">> \o entered.err]
             ELSE SaveCompleted(user, loaded.userProgram, loaded.program,
                      buildCompletedWorkout(next.workout, entered.amrapReps).completed)

\* showNextWorkout on the stored user: the workout that is displayed, and the
\* user record that the repository holds when the command returns (the
\* command never calls Update).
showNextWorkout(user) ==
    LET loaded == GetCurrentUserWithProgram(user)
        next == CalculateNextWorkout(user, loaded.program)
    IN  IF loaded.err # NoError
        THEN [user |-> user, shown |-> Nil, err |-> loaded.err]
        ELSE IF next.err # NoError
        THEN [user |-> user, shown |-> Nil,
              err |-> <<"failed to calculate next workout">> \o next.err]
        ELSE [user |-> user, shown |-> next.workout, err |-> NoError]

\* showNextWorkout run n times in a row: the stored user after the last run
\* and what each run displayed.
RECURSIVE ShowTimes(_, _)
ShowTimes(user, n) ==
    IF n = 0 THEN [user |-> user, runs |-> << >>]
    ELSE LET before == ShowTimes(user, n - 1)
             run == showNextWorkout(before.user)
         IN  [user |-> run.user,
              runs |-> Append(before.runs, [shown |-> run.shown, err |-> run.err])]

\* Mutant: CalculateProgression writes the new weights into the map it was
\* given.
ProgressionInputsAfter_Aliased(workout, currentWeights, rules) ==
    LET progression == CalculateProgression(workout, currentWeights, rules)
    IN  [workout |-> workout,
         currentWeights |-> IF progression.err = NoError
                            THEN progression.weights ELSE currentWeights,
         rules |-> rules]

\* The arguments of CalculateProgression as the caller sees them after the
\* call: newWeights is a map of its own (make), the loop assigns to it only,
\* and lift is a copy of the element of workout.Exercises.
ProgressionInputsAfter(workout, currentWeights, rules) ==
    [workout |-> workout, currentWeights |-> currentWeights, rules |-> rules]

\* The arguments of CalculateNextWorkout as the caller sees them after the
\* call: the only assignments are to the new workout, to allSets and to the
\* Order of the sets CalculateWorkingSets has just made.
NextWorkoutInputsAfter(user, program) ==
    [user |-> user, program |-> program]

-----------------------------------------------------------------------------
(* Inputs *)

\* Weights run over 0 .. MaxSteps * 2.5 lb: each boundary plus the offsets.
MaxSteps == 72
\* Longest template list that is enumerated.
MaxTemplates == 2
\* AMRAP rep counts run over 0 .. MaxReps.
MaxReps == 12
\* Most lifts a completed workout holds.
MaxExercises == 2
\* Most lifts that a weights map or a rules map leaves out.
MaxMissing == 1
\* Stored current days run over 1 .. MaxDay.
MaxDay == 7
\* GetWorkoutDay is called with days 1 .. MaxCurrentDay of cycles that are
\* 1 .. MaxTotalDays days long.
MaxCurrentDay == 100
MaxTotalDays == 7

WeightOffsets == {0, 200, 500, 1000, 2300}

WeightInputs == {F(2500 * s + o) : s \in 0..MaxSteps, o \in WeightOffsets}

\* float64 values at and around the rounding boundaries, for RoundDown2_5.
FloatInputs ==
    WeightInputs \cup {[n |-> 2500 * s, d |-> d] : s \in 1..MaxSteps, d \in {-1, 1}}

TemplateInputs ==
    { [Reps |-> 5, WeightPercentage |-> 0, Type |-> WarmupSet],
      [Reps |-> 4, WeightPercentage |-> 55, Type |-> WarmupSet],
      [Reps |-> 3, WeightPercentage |-> 70, Type |-> WorkingSet],
      [Reps |-> 2, WeightPercentage |-> 85, Type |-> AMRAPSet] }

SeqsUpTo(S, n) == UNION {[1..k -> S] : k \in 0..n}

TemplateListInputs ==
    SeqsUpTo(TemplateInputs, MaxTemplates) \cup {GreyskullWarmupSets, GreyskullWorkingSets}

RulesInputs ==
    {[GreyskullRules EXCEPT !.DeloadPercentage = p, !.DoubleThreshold = t] :
        p \in {90, 70}, t \in {10, 3}}

\* Maps over the lifts that leave out at most MaxMissing of them.
Restrict(f, D) == [k \in D |-> f[k]]

DomainInputs == {D \in SUBSET LiftNames : Cardinality(LiftNames \ D) <= MaxMissing}

ReferenceWeights ==
    (OverheadPress :> F(95000)) @@ (BenchPress :> F(125000))
    @@ (Squat :> F(135000)) @@ (Deadlift :> F(185000))

\* The sets of a performed lift: complete, without its AMRAP set, with two.
PerformedSets(reps) ==
    << [Weight |-> F(95000), TargetReps |-> 5, ActualReps |-> 5,
        Type |-> WorkingSet, Order |-> 1],
       [Weight |-> F(95000), TargetReps |-> 5, ActualReps |-> reps,
        Type |-> AMRAPSet, Order |-> 2] >>

SetListInputs ==
    {PerformedSets(r) : r \in {3, 8, 12}}
    \cup {SubSeq(PerformedSets(8), 1, 1)}
    \cup {PerformedSets(4) \o PerformedSets(11)}

ExerciseListInputs ==
    {e \in SeqsUpTo([LiftName : LiftNames, Sets : SetListInputs], MaxExercises) :
        \A i, k \in 1..Len(e) : i # k => e[i].LiftName # e[k].LiftName}

UserInputs(currentProgram, currentDay, currentWeights) ==
    [CurrentProgram |-> currentProgram,
     Programs |-> ("up-1" :>
        [ID |-> "up-1", CurrentDay |-> currentDay, CurrentWeights |-> currentWeights])]

\* One-day programs with a single lift whose only warmup set is at pct.
OneSetProgram(pct) ==
    [ID |-> "custom",
     Workouts |-> << [Day |-> 1, Lifts |-> <<
        [LiftName |-> Squat,
         WarmupSets |-> << [Reps |-> 5, WeightPercentage |-> pct, Type |-> WarmupSet] >>,
         WorkingSets |-> GreyskullWorkingSets] >>] >>,
     ProgressionRules |-> GreyskullRules]

ProgramInputs == {GreyskullLP} \cup {OneSetProgram(pct) : pct \in {35, 90}}

NextWorkoutInputs ==
    {[fn |-> "CalculateNextWorkout",
      user |-> UserInputs("up-1", day, [l \in LiftNames |-> w]),
      program |-> p] : day \in 1..MaxDay, w \in WeightInputs, p \in ProgramInputs}
    \cup
    {[fn |-> "CalculateNextWorkout",
      user |-> UserInputs(cp, day, Restrict(ReferenceWeights, D)),
      program |-> GreyskullLP] :
        cp \in {NilUUID, "up-1", "up-2"}, day \in 1..MaxDay, D \in DomainInputs}

\* Workouts as CalculateNextWorkout hands them to buildCompletedWorkout.
LightWeights == [l \in LiftNames |-> F(45000)]

TemplateWorkoutInputs ==
    {CalculateNextWorkout(UserInputs("up-1", day, w), p).workout :
        day \in 1..MaxDay, w \in {ReferenceWeights, LightWeights}, p \in ProgramInputs}

EnteredReps ==
    (OverheadPress :> 6) @@ (BenchPress :> 7) @@ (Squat :> 8) @@ (Deadlift :> 12)

AMRAPRepsInputs ==
    {Restrict(r, D) : r \in {EnteredReps, [l \in LiftNames |-> 1]}, D \in DomainInputs}

\* Starting weights as typed at program start: the reference weights, an
\* empty bar on every lift, weights off the 2.5 grid, weights of a few pounds,
\* and a rejected zero.
TinyWeights ==
    (OverheadPress :> F(2500)) @@ (BenchPress :> F(5000))
    @@ (Squat :> F(2000)) @@ (Deadlift :> F(3000))

OddWeights ==
    (OverheadPress :> F(97300)) @@ (BenchPress :> F(85000))
    @@ (Squat :> F(86000)) @@ (Deadlift :> F(175000))

StartingWeightInputs ==
    {ReferenceWeights, LightWeights, OddWeights, TinyWeights,
     [ReferenceWeights EXCEPT ![Deadlift] = F(0)]}

\* Lines typed at the prompts of a log: MaxLines lines, all BaseLine but the
\* one at position p.
MaxLines == 14
\* A user logs at most MaxLogs workouts with the entries of LogInputs, and at
\* most MaxCycleLogs workouts with the entries of CycleInputs.
MaxLogs == 2
MaxCycleLogs == 7

BaseLine == "6"

ExceptionLines == {"3", "12", "0", "-1", "abc", "  ", " +8 "}

ExceptionPositions == {1, 2, 3, 6, 7, 14}

Stream(p, x) == [i \in 1..MaxLines |-> IF i = p THEN x ELSE BaseLine]

\* Normal mode reads one line for each lift, failure mode one for each set.
LogInputs ==
    [fail : {FALSE},
     stdin : {Stream(p, x) : p \in {1, 2}, x \in ExceptionLines}
             \cup {Stream(0, BaseLine), <<BaseLine>>}]
    \cup
    [fail : {TRUE},
     stdin : {Stream(p, x) : p \in ExceptionPositions, x \in ExceptionLines}
             \cup {Stream(0, BaseLine), <<BaseLine>>}]

\* User records as the repository holds them when a command starts: a user
\* with the program started from each accepted set of starting weights and a
\* stored day of 1 .. MaxDay, a user without a program, a user whose current
\* program is not among the programs, one whose program is not in the
\* catalogue, and one with no current weight for a lift.
StartedUsers ==
    {startProgram(NewUser, w).user : w \in StartingWeightInputs} \ {NewUser}

StoredUserInputs ==
    {[u EXCEPT !.Programs[u.CurrentProgram].CurrentDay = d] :
        u \in StartedUsers, d \in 1..MaxDay}
    \cup {NewUser}
    \cup {[u EXCEPT !.CurrentProgram = "up-2"] : u \in StartedUsers}
    \cup {[u EXCEPT !.Programs[u.CurrentProgram].ProgramID = "unknown"] :
             u \in StartedUsers}
    \cup {[u EXCEPT !.Programs[u.CurrentProgram].CurrentWeights =
                        Restrict(@, LiftNames \ {Squat})] : u \in StartedUsers}

\* Completed workouts as logWorkout hands them to CalculateProgression, and
\* workouts that CalculateProgression rejects: a lift without an AMRAP set
\* after a lift that has one.
CompletedWorkoutInputs(user) ==
    LET program == GetCurrentUserWithProgram(user).program
        next == CalculateNextWorkout(user, program).workout
        completed == buildCompletedWorkout(next, EnteredReps).completed
    IN  {completed,
         [completed EXCEPT !.Exercises[2].Sets =
             [i \in 1..Len(@) |-> [@[i] EXCEPT !.Type = WorkingSet]]]}

\* The next workout is displayed 1 .. MaxShows times in a row.
MaxShows == 3

CommandInputs ==
    {[fn |-> "logWorkout", user |-> u, fail |-> in.fail, stdin |-> in.stdin] :
        u \in StoredUserInputs, in \in LogInputs}
    \cup
    UNION {[fn : {"SaveCompleted"}, user : {u},
            completedWorkout : CompletedWorkoutInputs(u)] :
              u \in {v \in StoredUserInputs :
                        /\ GetCurrentUserWithProgram(v).err = NoError
                        /\ CalculateNextWorkout(v, GreyskullLP).err = NoError}}
    \cup
    [fn : {"showNextWorkout"}, user : StoredUserInputs, times : 1..MaxShows]

CycleInputs ==
    {[fail |-> FALSE, stdin |-> Stream(0, BaseLine)],
     [fail |-> FALSE, stdin |-> Stream(1, "3")],
     [fail |-> TRUE, stdin |-> Stream(7, "12")]}

None == "none"

Init ==
    /\ pc = "call"
    /\ result = None
    /\ store = Nil
    /\ args \in
          [fn : {"RoundDown2_5"}, input : FloatInputs]
          \cup [fn : {"CalculateWarmupSets"}, weight : WeightInputs,
                setTemplates : TemplateListInputs]
          \cup [fn : {"CalculateWorkingSets"}, weight : WeightInputs,
                setTemplates : TemplateListInputs]
          \cup [fn : {"CalculateNewWeight"}, currentWeight : WeightInputs,
                amrapReps : 0..MaxReps, baseIncrement : {F(2500), F(5000)},
                rules : RulesInputs]
          \cup [fn : {"CalculateProgression"},
                workout : [Exercises : ExerciseListInputs],
                currentWeights : {Restrict(ReferenceWeights, D) : D \in DomainInputs},
                rules : {[GreyskullRules EXCEPT !.IncreaseRules = Restrict(@, D)] :
                            D \in DomainInputs}]
          \cup NextWorkoutInputs
          \cup [fn : {"GetWorkoutDay"}, currentDay : 1..MaxCurrentDay,
                totalDays : 1..MaxTotalDays]
          \cup [fn : {"buildCompletedWorkout"}, template : TemplateWorkoutInputs,
                amrapReps : AMRAPRepsInputs]
          \cup CommandInputs

DoRoundDown2_5 ==
    /\ pc = "call"
    /\ args.fn = "RoundDown2_5"
    /\ result' = RoundDown2_5(args.input)
    /\ pc' = "done"
    /\ UNCHANGED <<args, store>>

DoCalculateWarmupSets ==
    /\ pc = "call"
    /\ args.fn = "CalculateWarmupSets"
    /\ result' = CalculateWarmupSets(args.weight, args.setTemplates)
    /\ pc' = "done"
    /\ UNCHANGED <<args, store>>

DoCalculateWorkingSets ==
    /\ pc = "call"
    /\ args.fn = "CalculateWorkingSets"
    /\ result' = CalculateWorkingSets(args.weight, args.setTemplates)
    /\ pc' = "done"
    /\ UNCHANGED <<args, store>>

DoCalculateNewWeight ==
    /\ pc = "call"
    /\ args.fn = "CalculateNewWeight"
    /\ result' = CalculateNewWeight(args.currentWeight, args.amrapReps,
                                    args.baseIncrement, args.rules)
    /\ pc' = "done"
    /\ UNCHANGED <<args, store>>

DoCalculateProgression ==
    /\ pc = "call"
    /\ args.fn = "CalculateProgression"
    /\ result' = CalculateProgression(args.workout, args.currentWeights, args.rules)
    /\ LET after == ProgressionInputsAfter(args.workout, args.currentWeights, args.rules)
       IN  args' = [args EXCEPT !.workout = after.workout,
                                !.currentWeights = after.currentWeights,
                                !.rules = after.rules]
    /\ pc' = "done"
    /\ UNCHANGED store

DoCalculateNextWorkout ==
    /\ pc = "call"
    /\ args.fn = "CalculateNextWorkout"
    /\ result' = CalculateNextWorkout(args.user, args.program)
    /\ LET after == NextWorkoutInputsAfter(args.user, args.program)
       IN  args' = [args EXCEPT !.user = after.user, !.program = after.program]
    /\ pc' = "done"
    /\ UNCHANGED store

DoGetWorkoutDay ==
    /\ pc = "call"
    /\ args.fn = "GetWorkoutDay"
    /\ result' = GetWorkoutDay(args.currentDay, args.totalDays)
    /\ pc' = "done"
    /\ UNCHANGED <<args, store>>

DoBuildCompletedWorkout ==
    /\ pc = "call"
    /\ args.fn = "buildCompletedWorkout"
    /\ result' = buildCompletedWorkout(args.template, args.amrapReps)
    /\ pc' = "done"
    /\ UNCHANGED <<args, store>>

\* One run of the log command on a stored user: result.user is the record
\* the repository holds afterwards.
DoLogWorkout ==
    /\ pc = "call"
    /\ args.fn = "logWorkout"
    /\ result' = logWorkout(args.user, args.fail, args.stdin)
    /\ pc' = "done"
    /\ UNCHANGED <<args, store>>

\* The log command from the completed workout on.
DoSaveCompleted ==
    /\ pc = "call"
    /\ args.fn = "SaveCompleted"
    /\ LET loaded == GetCurrentUserWithProgram(args.user)
       IN  result' = SaveCompleted(args.user, loaded.userProgram, loaded.program,
                                   args.completedWorkout)
    /\ pc' = "done"
    /\ UNCHANGED <<args, store>>

\* The next command, args.times times in a row.
DoShowNextWorkout ==
    /\ pc = "call"
    /\ args.fn = "showNextWorkout"
    /\ result' = ShowTimes(args.user, args.times)
    /\ pc' = "done"
    /\ UNCHANGED <<args, store>>

Next ==
    \/ DoRoundDown2_5
    \/ DoCalculateWarmupSets
    \/ DoCalculateWorkingSets
    \/ DoCalculateNewWeight
    \/ DoCalculateProgression
    \/ DoCalculateNextWorkout
    \/ DoGetWorkoutDay
    \/ DoBuildCompletedWorkout
    \/ DoLogWorkout
    \/ DoSaveCompleted
    \/ DoShowNextWorkout

Spec == Init /\ [][Next]_vars

\* The logging workflow: the repository holds the current user as program
\* start left it; every step is one run of the workout log command.  A
\* behaviour ends with the first command that is rejected: the repository is
\* then as it was before that command.
InitLog ==
    \E startingWeights \in StartingWeightInputs :
        LET started == startProgram(NewUser, startingWeights)
        IN  /\ pc = "started"
            /\ args = [cmd |-> "start", startingWeights |-> startingWeights]
            /\ result = started.err
            /\ store = started.user

LogWorkout(failMode, stdin) ==
    LET logged == logWorkout(store, failMode, stdin)
    IN  /\ store' = logged.user
        /\ result' = logged.err
        /\ args' = [cmd |-> "log", fail |-> failMode, stdin |-> stdin]
        /\ pc' = IF logged.err = NoError THEN "logged" ELSE "rejected"

NextLog ==
    \E in \in LogInputs :
        /\ pc # "rejected"
        /\ Len(store.WorkoutHistory) < MaxLogs
        /\ LogWorkout(in.fail, in.stdin)

SpecLog == InitLog /\ [][NextLog]_vars

NextCycle ==
    \E in \in CycleInputs :
        /\ pc # "rejected"
        /\ Len(store.WorkoutHistory) < MaxCycleLogs
        /\ LogWorkout(in.fail, in.stdin)

SpecCycle == InitLog /\ [][NextCycle]_vars

-----------------------------------------------------------------------------
(* Properties *)

Done(fn) == pc = "done" /\ args.fn = fn

\* The greatest multiple of 2.5 that does not exceed the float64 x >= 0.
GreatestMultiple(x) ==
    F(2500 * (CHOOSE m \in 0..(x.n \div 2500) :
                 /\ FLeq(F(2500 * m), x)
                 /\ \A k \in 0..(x.n \div 2500) : FLeq(F(2500 * k), x) => k <= m))

IsMultiple(x) == x.d = 0 /\ x.n % 2500 = 0

Weights(sets) == [i \in 1..Len(sets) |-> sets[i].Weight]
Reps(sets) == [i \in 1..Len(sets) |-> sets[i].TargetReps]

\* C1: CalculateNewWeight is the three-branch policy: fewer than 5 reps give
\* the deload fraction of the current weight, otherwise reps at or above the
\* double threshold add twice the base increment, otherwise one increment is
\* added, each rounded down to 2.5; with the default rules (95, 3, 2.5) -> 85,
\* 5 and 6 reps -> 97.5, 10 and 12 reps -> 100.
C1_NewWeightPolicy ==
    Done("CalculateNewWeight") =>
        LET w == args.currentWeight
            reps == args.amrapReps
            inc == args.baseIncrement
            raw == IF reps < 5 THEN FMul(w, args.rules.DeloadPercentage)
                   ELSE IF reps >= args.rules.DoubleThreshold THEN F(w.n + 2 * inc.n)
                   ELSE F(w.n + inc.n)
        IN  /\ result = GreatestMultiple(raw)
            /\ (w = F(95000) /\ inc = F(2500) /\ args.rules = GreyskullRules) =>
                  /\ reps = 3 => result = F(85000)
                  /\ reps \in {5, 6} => result = F(97500)
                  /\ reps \in {10, 12} => result = F(100000)

C1_Witness ==
    /\ Done("CalculateNewWeight")
    /\ args.currentWeight = F(95000) /\ args.baseIncrement = F(2500)
    /\ args.rules = GreyskullRules /\ args.amrapReps = 5
    /\ result = F(97500)

PerformedLifts(workout) == {workout.Exercises[i].LiftName : i \in 1..Len(workout.Exercises)}

\* The actual reps of the first set of kind AMRAP among the sets.
AMRAPReps(sets) ==
    sets[CHOOSE i \in 1..Len(sets) :
            /\ sets[i].Type = AMRAPSet
            /\ \A k \in 1..(i - 1) : sets[k].Type # AMRAPSet].ActualReps

\* C2: when CalculateProgression succeeds its map has exactly the lifts of
\* currentWeights as keys, a lift that is not in the workout keeps its weight,
\* and a lift of the workout gets CalculateNewWeight of its current weight, its
\* AMRAP set's actual reps and its base increment.
C2_ProgressionFrame ==
    (Done("CalculateProgression") /\ result.err = NoError) =>
        /\ DOMAIN result.weights = DOMAIN args.currentWeights
        /\ \A l \in DOMAIN args.currentWeights \ PerformedLifts(args.workout) :
              result.weights[l] = args.currentWeights[l]
        /\ \A i \in 1..Len(args.workout.Exercises) :
              LET lift == args.workout.Exercises[i]
              IN  result.weights[lift.LiftName] =
                      CalculateNewWeight(args.currentWeights[lift.LiftName],
                                         AMRAPReps(lift.Sets),
                                         args.rules.IncreaseRules[lift.LiftName],
                                         args.rules)

C2_Witness ==
    /\ Done("CalculateProgression") /\ result.err = NoError
    /\ PerformedLifts(args.workout) = {OverheadPress, Squat}
    /\ DOMAIN args.currentWeights = LiftNames
    /\ result.weights[OverheadPress] = F(97500)
    /\ result.weights[Squat] = F(145000)
    /\ result.weights[BenchPress] = F(125000)
    /\ result.weights[Deadlift] = F(185000)

HasAMRAP(lift) == \E i \in 1..Len(lift.Sets) : lift.Sets[i].Type = AMRAPSet

\* The lift cannot be progressed: no AMRAP set, no rule or no current weight.
Unprogressable(lift) ==
    \/ ~HasAMRAP(lift)
    \/ lift.LiftName \notin DOMAIN args.rules.IncreaseRules
    \/ lift.LiftName \notin DOMAIN args.currentWeights

\* C3: CalculateProgression returns an error and a nil map as soon as a lift
\* of the workout, in exercise order, has no AMRAP set, no base increment or no
\* current weight; for that lift the three are checked in this order, so a
\* lift without rule and without weight reports the missing rule.
C3_ProgressionErrors ==
    Done("CalculateProgression") =>
        LET ex == args.workout.Exercises
            bad == {i \in 1..Len(ex) : Unprogressable(ex[i])}
        IN  IF bad = {} THEN result.err = NoError /\ result.weights # Nil
            ELSE LET lift == ex[CHOOSE i \in bad : \A k \in bad : i <= k]
                 IN  /\ result.weights = Nil
                     /\ result.err =
                          IF ~HasAMRAP(lift)
                          THEN <<"failed to get AMRAP reps for", lift.LiftName,
                                 "no AMRAP set found for lift", lift.LiftName>>
                          ELSE IF lift.LiftName \notin DOMAIN args.rules.IncreaseRules
                          THEN <<"no progression rule found for lift", lift.LiftName>>
                          ELSE <<"current weight not found for lift", lift.LiftName>>

C3_Witness ==
    /\ Done("CalculateProgression")
    /\ Len(args.workout.Exercises) = 2
    /\ ~Unprogressable(args.workout.Exercises[1])
    /\ HasAMRAP(args.workout.Exercises[2])
    /\ args.workout.Exercises[2].LiftName \notin DOMAIN args.rules.IncreaseRules
    /\ args.workout.Exercises[2].LiftName \notin DOMAIN args.currentWeights
    /\ result.weights = Nil
    /\ result.err = <<"no progression rule found for lift",
                      args.workout.Exercises[2].LiftName>>

C5_WarmupSets ==
    (Done("CalculateWarmupSets") /\ args.weight.n > 85000) =>
        /\ DOMAIN result = 1..Len(args.setTemplates)
        /\ \A i \in 1..Len(args.setTemplates) :
              LET tpl == args.setTemplates[i]
              IN  /\ result[i].Weight =
                        IF tpl.WeightPercentage = 0 THEN F(45000)
                        ELSE GreatestMultiple(FMul(args.weight, tpl.WeightPercentage))
                  /\ result[i].TargetReps = tpl.Reps
                  /\ result[i].Type = tpl.Type
                  /\ result[i].Order = i
        /\ (args.weight = F(97500) /\ args.setTemplates = GreyskullWarmupSets) =>
              Weights(result) = <<F(45000), F(52500), F(67500), F(82500)>>

C5_Witness ==
    /\ Done("CalculateWarmupSets")
    /\ args.weight = F(97500)
    /\ args.setTemplates = GreyskullWarmupSets
    /\ Weights(result) = <<F(45000), F(52500), F(67500), F(82500)>>

\* C6 as claimed: for workingWeight = 100 and the {0%,55%,70%,85%} protocol the
\* warmup weights are [45, 50, 65, 80] with target reps [5, 4, 3, 2].
C6_AsClaimed ==
    (Done("CalculateWarmupSets") /\ args.weight = F(100000)
     /\ args.setTemplates = GreyskullWarmupSets) =>
        /\ Weights(result) = <<F(45000), F(50000), F(65000), F(80000)>>
        /\ Reps(result) = <<5, 4, 3, 2>>

\* C6 amended: for workingWeight = 100 and the {0%,55%,70%,85%} protocol the
\* warmup weights are [45, 55, 70, 85] with target reps [5, 4, 3, 2], in that
\* order.
C6_Warmup100 ==
    (Done("CalculateWarmupSets") /\ args.weight = F(100000)
     /\ args.setTemplates = GreyskullWarmupSets) =>
        /\ Weights(result) = <<F(45000), F(55000), F(70000), F(85000)>>
        /\ Reps(result) = <<5, 4, 3, 2>>

C6_Witness ==
    /\ Done("CalculateWarmupSets")
    /\ args.weight = F(100000)
    /\ args.setTemplates = GreyskullWarmupSets
    /\ Len(result) = 4

\* C7: CalculateWorkingSets returns one set per template, all with the working
\* weight rounded down to 2.5 and no minimum of 45 (30 stays 30, 42.7 becomes
\* 42.5), each with its template's reps and kind and its 1-based position as
\* order; no template, no set.
C7_WorkingSets ==
    Done("CalculateWorkingSets") =>
        /\ DOMAIN result = 1..Len(args.setTemplates)
        /\ \A i \in 1..Len(args.setTemplates) :
              /\ result[i].Weight = GreatestMultiple(args.weight)
              /\ result[i].TargetReps = args.setTemplates[i].Reps
              /\ result[i].Type = args.setTemplates[i].Type
              /\ result[i].Order = i
        /\ args.setTemplates = << >> => result = << >>
        /\ (args.weight = F(30000) /\ args.setTemplates # << >>) =>
              result[1].Weight = F(30000)
        /\ (args.weight = F(42700) /\ args.setTemplates # << >>) =>
              result[1].Weight = F(42500)

C7_Witness ==
    /\ Done("CalculateWorkingSets")
    /\ args.weight = F(42700)
    /\ args.setTemplates = GreyskullWorkingSets
    /\ Weights(result) = <<F(42500), F(42500), F(42500)>>

\* C8: every set of every workout that CalculateNextWorkout produces, warmup,
\* working or AMRAP, weighs an exact multiple of 2.5.
C8_WeightsMultiple ==
    (Done("CalculateNextWorkout") /\ result.err = NoError) =>
        \A i \in 1..Len(result.workout.Exercises) :
            \A k \in 1..Len(result.workout.Exercises[i].Sets) :
                IsMultiple(result.workout.Exercises[i].Sets[k].Weight)

C8_Witness ==
    /\ Done("CalculateNextWorkout") /\ result.err = NoError
    /\ args.program = GreyskullLP
    /\ \E i \in 1..Len(result.workout.Exercises) :
          LET sets == result.workout.Exercises[i].Sets
          IN  /\ Len(sets) = 7
              /\ ~IsMultiple(args.user.Programs["up-1"].CurrentWeights[
                                 result.workout.Exercises[i].LiftName])
              /\ sets[3].Weight = F(120000)
              /\ sets[7].Type = AMRAPSet

\* C9: for x >= 0 RoundDown2_5(x) is the greatest multiple of 2.5 that is
\* <= x: a multiple of 2.5, never above x, less than 2.5 below x, and x itself
\* when x is a multiple of 2.5.
C9_RoundDown ==
    Done("RoundDown2_5") =>
        /\ IsMultiple(result)
        /\ FLeq(result, args.input)
        /\ FLt(args.input, F(result.n + 2500))
        /\ IsMultiple(args.input) => result = args.input

C9_Witness ==
    /\ Done("RoundDown2_5")
    /\ args.input = [n |-> 122500, d |-> -1]
    /\ result = F(120000)

\* C10: RoundDown2_5 is idempotent: applied to its own result it returns that
\* result.
C10_Idempotent ==
    Done("RoundDown2_5") => RoundDown2_5(result) = result

C10_Witness ==
    /\ Done("RoundDown2_5")
    /\ args.input = F(42700)
    /\ result = F(42500)
    /\ RoundDown2_5(result) = F(42500)

\* C11: GetWorkoutDay(currentDay, totalDays), for currentDay >= 1 and
\* totalDays >= 1, is ((currentDay - 1) mod totalDays) + 1, a day of
\* 1 .. totalDays: day 7 of 6 is 1, day 6 of 6 is 6, day 100 of 6 is 4.
C11_WorkoutDay ==
    Done("GetWorkoutDay") =>
        /\ result = ((args.currentDay - 1) % args.totalDays) + 1
        /\ result \in 1..args.totalDays
        /\ args.totalDays = 6 =>
              /\ args.currentDay = 7 => result = 1
              /\ args.currentDay = 6 => result = 6
              /\ args.currentDay = 100 => result = 4

C11_Witness ==
    /\ Done("GetWorkoutDay")
    /\ args.currentDay = 100
    /\ args.totalDays = 6
    /\ result = 4

\* A call of CalculateNextWorkout that returned a workout, and what it read.
NextWorkoutBuilt == Done("CalculateNextWorkout") /\ result.err = NoError

ActiveProgram == args.user.Programs[args.user.CurrentProgram]

CycleLength == Len(args.program.Workouts)

DayTemplate == args.program.Workouts[((ActiveProgram.CurrentDay - 1) % CycleLength) + 1]

Types(sets) == [i \in 1..Len(sets) |-> sets[i].Type]

\* C12: in every lift of a workout built by CalculateNextWorkout the sets are
\* the warmup sets followed by the working sets, and the set at position i
\* has Order = i: the working sets continue the numbering after the warmup
\* sets and start at 1 when the warmup is left out.
C12_SetOrder ==
    NextWorkoutBuilt =>
        \A k \in 1..Len(result.workout.Exercises) :
            LET sets == result.workout.Exercises[k].Sets
                tpl == DayTemplate.Lifts[k]
                w == ActiveProgram.CurrentWeights[tpl.LiftName]
                warmup == CalculateWarmupSets(w, tpl.WarmupSets)
                working == CalculateWorkingSets(w, tpl.WorkingSets)
            IN  /\ Weights(sets) = Weights(warmup) \o Weights(working)
                /\ Reps(sets) = Reps(warmup) \o Reps(working)
                /\ Types(sets) = Types(warmup) \o Types(working)
                /\ \A i \in 1..Len(sets) : sets[i].Order = i

C12_Witness ==
    /\ NextWorkoutBuilt
    /\ args.program = GreyskullLP
    /\ LET sets == result.workout.Exercises[2].Sets
       IN  /\ Len(sets) = 7
           /\ sets[4].Type = WarmupSet
           /\ sets[5].Type = WorkingSet
           /\ sets[5].Order = 5
           /\ sets[7].Order = 7

\* C13: a workout built by CalculateNextWorkout has Day equal to
\* GetWorkoutDay(stored current day, days in the program), UserProgramID
\* equal to the id of the user's active cycle, and exactly the lifts of that
\* day's template, in template order, each at the user's current weight for
\* that lift.
C13_NextWorkout ==
    NextWorkoutBuilt =>
        LET workout == result.workout
        IN  /\ workout.Day = ((ActiveProgram.CurrentDay - 1) % CycleLength) + 1
            /\ workout.UserProgramID = ActiveProgram.ID
            /\ Len(workout.Exercises) = Len(DayTemplate.Lifts)
            /\ \A k \in 1..Len(workout.Exercises) :
                  LET lift == workout.Exercises[k]
                      w == ActiveProgram.CurrentWeights[lift.LiftName]
                  IN  /\ lift.LiftName = DayTemplate.Lifts[k].LiftName
                      /\ lift.Sets = BuildLift(DayTemplate.Lifts[k], w).Sets
                      /\ lift.Sets[Len(lift.Sets)].Weight = GreatestMultiple(w)

C13_Witness ==
    /\ NextWorkoutBuilt
    /\ args.program = GreyskullLP
    /\ ActiveProgram.CurrentDay = 7
    /\ ActiveProgram.CurrentWeights = ReferenceWeights
    /\ result.workout.Day = 1
    /\ result.workout.UserProgramID = "up-1"
    /\ result.workout.Exercises[1].LiftName = OverheadPress
    /\ result.workout.Exercises[1].Sets[7].Weight = F(95000)
    /\ result.workout.Exercises[2].LiftName = Squat
    /\ result.workout.Exercises[2].Sets[7].Weight = F(135000)

\* C14: CalculateNextWorkout returns an error and no workout when the user
\* has no active program, when the active program reference is not among the
\* user's programs, or when any lift of the day's template has no tracked
\* current weight, even if earlier lifts of that workout were built; the
\* check for no active program comes before the lookup; otherwise it
\* returns a workout and no error.
C14_NextWorkoutErrors ==
    Done("CalculateNextWorkout") =>
        IF args.user.CurrentProgram = NilUUID
        THEN /\ result.workout = Nil
             /\ result.err = <<"no current program set for user">>
        ELSE IF args.user.CurrentProgram \notin DOMAIN args.user.Programs
        THEN /\ result.workout = Nil
             /\ result.err = <<"current program not found in user programs">>
        ELSE LET lifts == DayTemplate.Lifts
                 missing == {i \in 1..Len(lifts) :
                                lifts[i].LiftName \notin DOMAIN ActiveProgram.CurrentWeights}
             IN  IF missing # {}
                 THEN /\ result.workout = Nil
                      /\ result.err =
                            <<"current weight not found for lift",
                              lifts[CHOOSE i \in missing :
                                        \A k \in missing : i <= k].LiftName>>
                 ELSE /\ result.workout # Nil
                      /\ result.err = NoError

C14_Witness ==
    /\ Done("CalculateNextWorkout")
    /\ args.user.CurrentProgram = "up-1"
    /\ ActiveProgram.CurrentDay = 1
    /\ DOMAIN ActiveProgram.CurrentWeights = LiftNames \ {Squat}
    /\ result.workout = Nil
    /\ result.err = <<"current weight not found for lift", Squat>>

\* C15: every lift of every workout built from the Greyskull LP program has
\* exactly one AMRAP set, and it is the last set of the lift; every other
\* set that is not a warmup set is a working set.
C15_OneAMRAPLast ==
    (NextWorkoutBuilt /\ args.program = GreyskullLP) =>
        \A k \in 1..Len(result.workout.Exercises) :
            LET sets == result.workout.Exercises[k].Sets
            IN  /\ Cardinality({i \in 1..Len(sets) : sets[i].Type = AMRAPSet}) = 1
                /\ sets[Len(sets)].Type = AMRAPSet
                /\ \A i \in 1..(Len(sets) - 1) :
                      sets[i].Type # WarmupSet => sets[i].Type = WorkingSet

C15_Witness ==
    /\ NextWorkoutBuilt
    /\ args.program = GreyskullLP
    /\ ActiveProgram.CurrentDay = 5
    /\ Len(result.workout.Exercises) = 2
    /\ LET sets == result.workout.Exercises[2].Sets
       IN  /\ result.workout.Exercises[2].LiftName = Deadlift
           /\ Len(sets) = 7
           /\ sets[5].Type = WorkingSet
           /\ sets[6].Type = WorkingSet
           /\ sets[7].Type = AMRAPSet

\* The cycle the stored user is on, its program, and the workout logged last.
StoredProgram == store.Programs[store.CurrentProgram]

StoredCycle == GetByID(StoredProgram.ProgramID).program

LastLogged == store.WorkoutHistory[Len(store.WorkoutHistory)]

\* C16: the stored CurrentDay is 1 at program start and stays within
\* 1 .. cycleLength after any sequence of successful logs: each successful
\* log moves it from d to d + 1 when d < cycleLength and from cycleLength
\* back to 1 (3 -> 4 and 6 -> 1 in the 6-day program).
C16_DayCycle ==
    /\ [](store.CurrentProgram # NilUUID =>
            StoredProgram.CurrentDay \in 1..Len(StoredCycle.Workouts))
    /\ []((pc = "started" /\ result = NoError) => StoredProgram.CurrentDay = 1)
    /\ [][pc' = "logged" =>
            LET d == StoredProgram.CurrentDay
                cycleLength == Len(StoredCycle.Workouts)
            IN  /\ StoredProgram'.CurrentDay = IF d < cycleLength THEN d + 1 ELSE 1
                /\ (cycleLength = 6 /\ d = 3) => StoredProgram'.CurrentDay = 4
                /\ (cycleLength = 6 /\ d = 6) => StoredProgram'.CurrentDay = 1]_vars

C16_Witness ==
    /\ pc = "logged"
    /\ Len(store.WorkoutHistory) = 6
    /\ LastLogged.Day = 6
    /\ StoredProgram.CurrentDay = 1

\* C17: each successful log appends exactly one workout to the persisted
\* history, with the Day and the lifts of the workout computed for the state
\* before the log, and replaces the persisted current weights with the
\* result of CalculateProgression: a performed lift moves by the AMRAP policy
\* (95 -> 97.5 at 6 reps, 95 -> 100 at 12 reps, 95 -> 85 at 3 reps) and a
\* lift that is not in that day's workout keeps its weight.
C17_LogEffect ==
    [][pc' = "logged" =>
        LET rules == StoredCycle.ProgressionRules
            computed == CalculateNextWorkout(store, StoredCycle).workout
            history == store.WorkoutHistory
            logged == LastLogged'
            weights == StoredProgram.CurrentWeights
            newWeights == StoredProgram'.CurrentWeights
        IN  /\ Len(store'.WorkoutHistory) = Len(history) + 1
            /\ SubSeq(store'.WorkoutHistory, 1, Len(history)) = history
            /\ logged.Day = computed.Day
            /\ Len(logged.Exercises) = Len(computed.Exercises)
            /\ \A k \in 1..Len(computed.Exercises) :
                  logged.Exercises[k].LiftName = computed.Exercises[k].LiftName
            /\ newWeights = CalculateProgression(logged, weights, rules).weights
            /\ DOMAIN newWeights = DOMAIN weights
            /\ \A l \in DOMAIN weights \ PerformedLifts(logged) :
                  newWeights[l] = weights[l]
            /\ \A k \in 1..Len(logged.Exercises) :
                  LET l == logged.Exercises[k].LiftName
                      reps == AMRAPReps(logged.Exercises[k].Sets)
                  IN  /\ newWeights[l] =
                            CalculateNewWeight(weights[l], reps,
                                               rules.IncreaseRules[l], rules)
                      /\ (weights[l] = F(95000) /\ rules.IncreaseRules[l] = F(2500)) =>
                            /\ reps = 6 => newWeights[l] = F(97500)
                            /\ reps = 12 => newWeights[l] = F(100000)
                            /\ reps = 3 => newWeights[l] = F(85000)]_vars

C17_Witness ==
    /\ pc = "logged"
    /\ ~ args.fail
    /\ Len(store.WorkoutHistory) = 1
    /\ StoredProgram.StartingWeights = ReferenceWeights
    /\ LastLogged.Day = 1
    /\ AMRAPReps(LastLogged.Exercises[1].Sets) = 6
    /\ StoredProgram.CurrentWeights[OverheadPress] = F(97500)
    /\ StoredProgram.CurrentWeights[Squat] = F(140000)
    /\ StoredProgram.CurrentWeights[BenchPress] = F(125000)
    /\ StoredProgram.CurrentWeights[Deadlift] = F(185000)

\* C18: buildCompletedWorkout returns a workout with the day, the cycle
\* reference, the lifts and the sets of the template; every set keeps its
\* weight, target reps, kind and order, every set that is not an AMRAP set has
\* ActualReps = TargetReps, and every AMRAP set has the reps entered for its
\* lift; the template is left as it was, its sets at ActualReps = 0.
C18_BuildCompleted ==
    Done("buildCompletedWorkout") =>
        LET template == args.template
            completed == result.completed
        IN  /\ completed.Day = template.Day
            /\ completed.UserProgramID = template.UserProgramID
            /\ Len(completed.Exercises) = Len(template.Exercises)
            /\ \A i \in 1..Len(template.Exercises) :
                  LET from == template.Exercises[i]
                      to == completed.Exercises[i]
                  IN  /\ to.LiftName = from.LiftName
                      /\ Len(to.Sets) = Len(from.Sets)
                      /\ \A j \in 1..Len(from.Sets) :
                            /\ to.Sets[j].Weight = from.Sets[j].Weight
                            /\ to.Sets[j].TargetReps = from.Sets[j].TargetReps
                            /\ to.Sets[j].Type = from.Sets[j].Type
                            /\ to.Sets[j].Order = from.Sets[j].Order
                            /\ from.Sets[j].Type # AMRAPSet =>
                                  to.Sets[j].ActualReps = from.Sets[j].TargetReps
                            /\ (from.Sets[j].Type = AMRAPSet
                                /\ from.LiftName \in DOMAIN args.amrapReps) =>
                                  to.Sets[j].ActualReps = args.amrapReps[from.LiftName]
            /\ result.template = template
            /\ \A i \in 1..Len(result.template.Exercises) :
                  \A j \in 1..Len(result.template.Exercises[i].Sets) :
                      result.template.Exercises[i].Sets[j].ActualReps = 0

C18_Witness ==
    /\ Done("buildCompletedWorkout")
    /\ args.template.Day = 2
    /\ args.amrapReps = EnteredReps
    /\ Len(result.completed.Exercises[2].Sets) = 7
    /\ result.completed.Exercises[1].LiftName = BenchPress
    /\ result.completed.Exercises[1].Sets[7].ActualReps = 7
    /\ result.completed.Exercises[2].Sets[2].ActualReps = 4
    /\ result.completed.Exercises[2].Sets[7].ActualReps = 12
    /\ result.template.Exercises[2].Sets[7].ActualReps = 0

\* Typed lines that are a zero, a negative number, or no integer at all.
RejectedLines == {"0", "-1", "abc", "  "}

AllSets(workout) ==
    UNION {{workout.Exercises[i].Sets[j] : j \in 1..Len(workout.Exercises[i].Sets)} :
              i \in 1..Len(workout.Exercises)}

\* C19: in normal mode an AMRAP entry that is zero, negative or not an
\* integer is rejected with an error and nothing is persisted, so every set
\* of a workout persisted by a normal-mode log has ActualReps > 0.
C19_NormalModePositive ==
    [][(~ args'.fail /\ store.CurrentProgram # NilUUID) =>
        LET computed == CalculateNextWorkout(store, StoredCycle).workout
            stdin == args'.stdin
        IN  /\ (\E i \in 1..Len(computed.Exercises) :
                    i <= Len(stdin) /\ stdin[i] \in RejectedLines) =>
                  /\ pc' = "rejected"
                  /\ result' # NoError
                  /\ result'[1] = "failed to collect AMRAP reps"
                  /\ store' = store
            /\ pc' = "logged" =>
                  \A set \in AllSets(LastLogged') : set.ActualReps > 0]_vars

C19_Witness ==
    /\ pc = "rejected"
    /\ ~ args.fail
    /\ Len(args.stdin) = MaxLines
    /\ args.stdin[1] = "6"
    /\ args.stdin[2] = "0"
    /\ store.WorkoutHistory = << >>
    /\ result = <<"failed to collect AMRAP reps", "failed to read AMRAP reps for",
                  Squat, "number must be positive, got", "0">>

\* The number a typed line stands for.
EnteredValue ==
    ("6" :> 6) @@ ("3" :> 3) @@ ("12" :> 12) @@ ("0" :> 0) @@ (" +8 " :> 8)
    @@ ("-1" :> -1)

\* The number of sets the exercises before position k hold.
RECURSIVE SetsBefore(_, _)
SetsBefore(exercises, k) ==
    IF k <= 1 THEN 0 ELSE SetsBefore(exercises, k - 1) + Len(exercises[k - 1].Sets)

\* C20: in failure mode every set of every lift is prompted in order and is
\* persisted with exactly the entered value as ActualReps, 0 included; a
\* negative entry aborts the command with a 'number cannot be negative'
\* error; the progression is computed from the entered AMRAP value, an AMRAP
\* entry below 5 deloading the lift.
C20_FailMode ==
    [][(args'.fail /\ store.CurrentProgram # NilUUID) =>
        LET rules == StoredCycle.ProgressionRules
            computed == CalculateNextWorkout(store, StoredCycle).workout
            stdin == args'.stdin
            n == SetsBefore(computed.Exercises, Len(computed.Exercises) + 1)
            Accepted(i) == /\ i <= Len(stdin)
                           /\ stdin[i] \in DOMAIN EnteredValue
                           /\ EnteredValue[stdin[i]] >= 0
            weights == StoredProgram.CurrentWeights
            newWeights == StoredProgram'.CurrentWeights
        IN  /\ (\A i \in 1..n : Accepted(i)) =>
                  /\ pc' = "logged"
                  /\ result' = NoError
                  /\ Len(LastLogged'.Exercises) = Len(computed.Exercises)
                  /\ \A k \in 1..Len(computed.Exercises) :
                        LET from == computed.Exercises[k]
                            to == LastLogged'.Exercises[k]
                            first == SetsBefore(computed.Exercises, k)
                            amrap == EnteredValue[stdin[first + Len(from.Sets)]]
                        IN  /\ to.LiftName = from.LiftName
                            /\ Len(to.Sets) = Len(from.Sets)
                            /\ \A j \in 1..Len(from.Sets) :
                                  to.Sets[j] =
                                      [from.Sets[j] EXCEPT
                                          !.ActualReps = EnteredValue[stdin[first + j]]]
                            /\ newWeights[from.LiftName] =
                                  CalculateNewWeight(weights[from.LiftName], amrap,
                                      rules.IncreaseRules[from.LiftName], rules)
                            /\ amrap < 5 =>
                                  /\ newWeights[from.LiftName] =
                                        GreatestMultiple(FMul(weights[from.LiftName],
                                                              rules.DeloadPercentage))
                                  /\ FLt(F(0), weights[from.LiftName]) =>
                                        FLt(newWeights[from.LiftName],
                                            weights[from.LiftName])
            /\ (\E i \in 1..n : /\ \A k \in 1..(i - 1) : Accepted(k)
                                /\ i <= Len(stdin)
                                /\ stdin[i] = "-1") =>
                  /\ pc' = "rejected"
                  /\ result'[1] = "failed to collect workout data"
                  /\ result'[2] = "number cannot be negative for"
                  /\ store' = store]_vars

C20_Witness ==
    /\ pc = "logged"
    /\ args.fail
    /\ args.stdin[7] = "0"
    /\ result = NoError
    /\ StoredProgram.StartingWeights = ReferenceWeights
    /\ Len(store.WorkoutHistory) = 1
    /\ LastLogged.Exercises[1].Sets[7].Type = AMRAPSet
    /\ LastLogged.Exercises[1].Sets[7].ActualReps = 0
    /\ LastLogged.Exercises[1].Sets[1].ActualReps = 6
    /\ StoredProgram.CurrentWeights[OverheadPress] = F(85000)

\* C23: the deload has priority over the double progression: whenever
\* amrapReps < 5 the result is the rounded-down currentWeight * deload
\* fraction, also when the rules' double threshold is 5 or lower and
\* amrapReps reaches it.
C23_DeloadFirst ==
    (Done("CalculateNewWeight") /\ args.amrapReps < 5) =>
        result = GreatestMultiple(FMul(args.currentWeight, args.rules.DeloadPercentage))

C23_Witness ==
    /\ Done("CalculateNewWeight")
    /\ args.rules.DoubleThreshold = 3
    /\ args.rules.DeloadPercentage = 90
    /\ args.amrapReps = 4
    /\ args.currentWeight = F(95000)
    /\ args.baseIncrement = F(2500)
    /\ result = F(85000)

\* Whether the lift at position k of a built workout has warmup sets, and the
\* weight its working sets carry.
HasWarmup(k) ==
    Len(result.workout.Exercises[k].Sets) > Len(DayTemplate.Lifts[k].WorkingSets)

WorkingWeight(k) ==
    LET sets == result.workout.Exercises[k].Sets IN sets[Len(sets)].Weight

\* C29 as claimed: a lift with a non-empty warmup template has warmup sets
\* if and only if the weight its working sets carry is strictly greater
\* than 85.
C29_AsClaimed ==
    NextWorkoutBuilt =>
        \A k \in 1..Len(result.workout.Exercises) :
            DayTemplate.Lifts[k].WarmupSets # << >> =>
                (HasWarmup(k) <=> FLt(F(85000), WorkingWeight(k)))

\* C29: a lift with a non-empty warmup template has warmup sets if and only
\* if the user's current weight for the lift, as stored and before rounding,
\* is strictly greater than 85; the weight its working sets carry is then at
\* least 85.
C29_WarmupIff ==
    NextWorkoutBuilt =>
        \A k \in 1..Len(result.workout.Exercises) :
            LET w == ActiveProgram.CurrentWeights[DayTemplate.Lifts[k].LiftName]
            IN  DayTemplate.Lifts[k].WarmupSets # << >> =>
                  /\ HasWarmup(k) <=> FLt(F(85000), w)
                  /\ HasWarmup(k) => FLeq(F(85000), WorkingWeight(k))
                  /\ FLt(F(85000), WorkingWeight(k)) => HasWarmup(k)

C29_Witness ==
    /\ NextWorkoutBuilt
    /\ args.program = GreyskullLP
    /\ ActiveProgram.CurrentWeights[DayTemplate.Lifts[1].LiftName] = F(85200)
    /\ HasWarmup(1)
    /\ Len(result.workout.Exercises[1].Sets) = 7
    /\ WorkingWeight(1) = F(85000)

\* The lifts performed in at least one workout of the stored history.
EverPerformed ==
    UNION {PerformedLifts(store.WorkoutHistory[i]) : i \in 1..Len(store.WorkoutHistory)}

\* C26: from positive starting weights and the Greyskull LP rules, after any
\* sequence of successful logs with non-negative AMRAP counts every stored
\* current weight is non-negative, and the current weight of every lift that
\* was performed at least once is an exact multiple of 2.5.
C26_NonNegativeOnGrid ==
    store.CurrentProgram # NilUUID =>
        \A l \in DOMAIN StoredProgram.CurrentWeights :
            /\ FLeq(F(0), StoredProgram.CurrentWeights[l])
            /\ l \in EverPerformed => IsMultiple(StoredProgram.CurrentWeights[l])

C26_Witness ==
    /\ pc = "logged"
    /\ Len(store.WorkoutHistory) = 2
    /\ EverPerformed = LiftNames
    /\ StoredProgram.StartingWeights[Squat] = F(2000)
    /\ StoredProgram.CurrentWeights[Squat] = F(5000)
    /\ StoredProgram.CurrentWeights[OverheadPress] = F(0)

\* C27 as claimed: from positive starting weights, after any sequence of
\* successful logs every stored current weight is strictly greater than zero.
C27_AsClaimed ==
    store.CurrentProgram # NilUUID =>
        \A l \in DOMAIN StoredProgram.CurrentWeights :
            FLt(F(0), StoredProgram.CurrentWeights[l])

\* C27: from positive starting weights every stored current weight stays
\* non-negative; a successful log leaves the weight of a performed lift
\* strictly greater than zero exactly when the lift progressed (5 reps or
\* more) or the deload fraction of its weight is at least 2.5, and a lift
\* that was not performed keeps its weight: a deload of a weight below
\* 2.5 / 0.9 (2.5 itself, for one) leaves 0.
C27_PositiveUnlessSmallDeload ==
    [][pc' = "logged" =>
        LET rules == StoredCycle.ProgressionRules
            logged == LastLogged'
        IN  /\ \A l \in DOMAIN StoredProgram.CurrentWeights \ PerformedLifts(logged) :
                  StoredProgram'.CurrentWeights[l] = StoredProgram.CurrentWeights[l]
            /\ \A k \in 1..Len(logged.Exercises) :
                  LET l == logged.Exercises[k].LiftName
                      reps == AMRAPReps(logged.Exercises[k].Sets)
                      w == StoredProgram.CurrentWeights[l]
                      new == StoredProgram'.CurrentWeights[l]
                  IN  /\ FLeq(F(0), new)
                      /\ FLt(F(0), new) <=>
                            \/ reps >= 5
                            \/ FLeq(F(2500), FMul(w, rules.DeloadPercentage))]_vars

C27_Witness ==
    /\ pc = "logged"
    /\ Len(store.WorkoutHistory) = 1
    /\ StoredProgram.StartingWeights[OverheadPress] = F(2500)
    /\ AMRAPReps(LastLogged.Exercises[1].Sets) = 3
    /\ StoredProgram.CurrentWeights[OverheadPress] = F(0)

\* The cycle state of a user record: the current day and the current weights
\* of the current program, where there is one.
CycleState(user) ==
    IF user.CurrentProgram \in DOMAIN user.Programs
    THEN [day |-> user.Programs[user.CurrentProgram].CurrentDay,
          weights |-> user.Programs[user.CurrentProgram].CurrentWeights]
    ELSE Nil

\* C24: when the log command fails before the repository update (no active
\* program, the next workout cannot be computed, an entry is rejected, the
\* progression cannot be computed) the persisted user record is the one from
\* before the command: no new history entry, the same current day, the same
\* current weights.
C24_FailedLogKeepsRecord ==
    ((Done("logWorkout") \/ Done("SaveCompleted")) /\ result.err # NoError) =>
        /\ result.user = args.user
        /\ result.user.WorkoutHistory = args.user.WorkoutHistory
        /\ CycleState(result.user) = CycleState(args.user)

C24_Witness ==
    /\ Done("logWorkout")
    /\ ~args.fail
    /\ Len(args.stdin) = MaxLines
    /\ args.stdin[2] = "0"
    /\ CycleState(args.user) # Nil
    /\ CycleState(args.user).day = 3
    /\ result.err # NoError
    /\ result.err[1] = "failed to collect AMRAP reps"
    /\ result.user = args.user

C28_AsClaimed ==
    (Done("logWorkout") /\ result.err = NoError) =>
        LET cycleLength == Len(GreyskullLP.Workouts)
            effective == GetWorkoutDay(CycleState(args.user).day, cycleLength)
        IN  GetWorkoutDay(CycleState(result.user).day, cycleLength)
                = (effective % cycleLength) + 1

-----------------------------------------------------------------------------
(* src/repository/json.go: one JSONUserRepository shared by goroutines *)

ErrUserNotFound == <<"user not found">>
ErrUserAlreadyExists == <<"user already exists">>

\* Mutant: the name is used as it is typed.
ToLower_AsTyped(username) == username

\* strings.ToLower on the usernames that are used.
ToLower(username) ==
    CASE username \in {"alice", "Alice", "ALICE"} -> "alice"
      [] username \in {"bob", "Bob"}             -> "bob"
      [] OTHER                                   -> username

\* getUserFilename: the file of a user inside usersDir.
getUserFilename(username) == ToLower(username) \o ".json"

\* userExists: os.Stat finds the file.
userExists(files, username) == getUserFilename(username) \in DOMAIN files

\* findUserFile: the file name, or "" when there is no such file.
findUserFile(files, username) ==
    IF getUserFilename(username) \in DOMAIN files
    THEN getUserFilename(username) ELSE ""

\* saveUserToFile: usersDir with the user written to the file.
saveUserToFile(files, user, filename) == MapSet(files, filename, user)

\* loadUserFromFile
loadUserFromFile(files, filename) == files[filename]

\* List: the usernames as stored in the files.
List(files) == {loadUserFromFile(files, f).Username : f \in DOMAIN files}

\* Mutant: Lock returns while another goroutine holds the mutex.
CanLock_Always(mutex) == TRUE

\* r.mutex.Lock() returns only when no goroutine holds the mutex (0).
CanLock(mutex) == mutex = 0

\* Goroutines 1 .. MaxGoroutines share the repository; each makes one call.
MaxGoroutines == 3

Goroutines == 1..MaxGoroutines

CreateNames == {"alice", "Alice", "bob"}

GetNames == {"ALICE", "carol"}

\* The user a goroutine creates: the ID tells records of different calls apart.
RepoUser(g, username) == [ID |-> g, Username |-> username]

RepoCalls(g) ==
    {[fn |-> "Create", user |-> RepoUser(g, n)] : n \in CreateNames}
    \cup [fn : {"Get"}, username : GetNames]

InitRepo ==
    /\ pc = [g \in Goroutines |-> "call"]
    /\ result = [g \in Goroutines |-> None]
    /\ store = [files |-> EmptyMap, mutex |-> 0]
    /\ \E calls \in [Goroutines -> UNION {RepoCalls(g) : g \in Goroutines}] :
          /\ \A g \in Goroutines : calls[g] \in RepoCalls(g)
          /\ args = calls

\* r.mutex.Lock() at the start of Create and Get.
Lock(g) ==
    /\ pc[g] = "call"
    /\ CanLock(store.mutex)
    /\ store' = [store EXCEPT !.mutex = g]
    /\ pc' = [pc EXCEPT ![g] = args[g].fn]
    /\ UNCHANGED <<args, result>>

\* Create: the existence test; a user that exists ends the call, the
\* deferred Unlock included.
CreateExists(g) ==
    /\ pc[g] = "Create"
    /\ IF userExists(store.files, args[g].user.Username)
       THEN /\ result' = [result EXCEPT ![g] = ErrUserAlreadyExists]
            /\ store' = [store EXCEPT !.mutex = 0]
            /\ pc' = [pc EXCEPT ![g] = "done"]
       ELSE /\ pc' = [pc EXCEPT ![g] = "Create_save"]
            /\ UNCHANGED <<result, store>>
    /\ UNCHANGED args

\* Create: the user is written to its file; the deferred Unlock.
CreateSave(g) ==
    /\ pc[g] = "Create_save"
    /\ store' = [files |-> saveUserToFile(store.files, args[g].user,
                                getUserFilename(args[g].user.Username)),
                 mutex |-> 0]
    /\ result' = [result EXCEPT ![g] = NoError]
    /\ pc' = [pc EXCEPT ![g] = "done"]
    /\ UNCHANGED args

\* Get: the file is looked up; without a file the call ends.
GetFind(g) ==
    /\ pc[g] = "Get"
    /\ IF findUserFile(store.files, args[g].username) = ""
       THEN /\ result' = [result EXCEPT ![g] = [user |-> Nil, err |-> ErrUserNotFound]]
            /\ store' = [store EXCEPT !.mutex = 0]
            /\ pc' = [pc EXCEPT ![g] = "done"]
       ELSE /\ pc' = [pc EXCEPT ![g] = "Get_load"]
            /\ UNCHANGED <<result, store>>
    /\ UNCHANGED args

\* Get: the file is read; the deferred Unlock.
GetLoad(g) ==
    /\ pc[g] = "Get_load"
    /\ result' = [result EXCEPT ![g] =
          [user |-> loadUserFromFile(store.files,
                        findUserFile(store.files, args[g].username)),
           err |-> NoError]]
    /\ store' = [store EXCEPT !.mutex = 0]
    /\ pc' = [pc EXCEPT ![g] = "done"]
    /\ UNCHANGED args

NextRepo ==
    \E g \in Goroutines :
        \/ Lock(g)
        \/ CreateExists(g)
        \/ CreateSave(g)
        \/ GetFind(g)
        \/ GetLoad(g)

SpecRepo == InitRepo /\ [][NextRepo]_vars

\* Names that are equal ignoring case.
NameClasses == {{"alice", "Alice", "ALICE"}, {"bob", "Bob"}, {"carol"}}

SameIgnoringCase(a, b) == \E C \in NameClasses : a \in C /\ b \in C

\* The stored users whose name equals the name ignoring case.
StoredAs(username) ==
    {store.files[f] : f \in {h \in DOMAIN store.files :
                               SameIgnoringCase(store.files[h].Username, username)}}

\* C21: usernames are unique ignoring case: a Create returns
\* ErrUserAlreadyExists exactly when a user with the name, ignoring case, is
\* stored, and then leaves the stored users as they are; no stored user is
\* ever changed by a Create; Get with any casing of a stored name returns the
\* stored user with the casing it was created with, and ErrUserNotFound when
\* no user with the name was created.
C21_UniqueIgnoringCase ==
    /\ [](\A f, h \in DOMAIN store.files :
            SameIgnoringCase(store.files[f].Username, store.files[h].Username) => f = h)
    /\ [][\A g \in Goroutines :
            /\ (pc[g] = "Create" /\ pc'[g] = "done") =>
                  /\ StoredAs(args[g].user.Username) # {}
                  /\ result'[g] = ErrUserAlreadyExists
                  /\ store'.files = store.files
            /\ (pc[g] = "Create" /\ pc'[g] = "Create_save") =>
                  StoredAs(args[g].user.Username) = {}
            /\ (pc[g] = "Create_save" /\ pc'[g] = "done") =>
                  /\ result'[g] = NoError
                  /\ StoredAs(args[g].user.Username)' = {args[g].user}
            /\ (pc[g] \in {"Get", "Get_load"} /\ pc'[g] = "done") =>
                  IF StoredAs(args[g].username) = {}
                  THEN result'[g] = [user |-> Nil, err |-> ErrUserNotFound]
                  ELSE /\ result'[g].err = NoError
                       /\ StoredAs(args[g].username) = {result'[g].user}
            /\ \A f \in DOMAIN store.files :
                  f \in DOMAIN store'.files /\ store'.files[f] = store.files[f]]_vars

C21_Witness ==
    /\ \A g \in Goroutines : pc[g] = "done"
    /\ args[1] = [fn |-> "Create", user |-> RepoUser(1, "Alice")]
    /\ args[2] = [fn |-> "Create", user |-> RepoUser(2, "alice")]
    /\ args[3] = [fn |-> "Get", username |-> "ALICE"]
    /\ result[1] = NoError
    /\ result[2] = ErrUserAlreadyExists
    /\ result[3] = [user |-> RepoUser(1, "Alice"), err |-> NoError]
    /\ List(store.files) = {"Alice"}

\* The goroutines that call Create, and those among them whose name equals
\* the name of g ignoring case.
Creators == {g \in Goroutines : args[g].fn = "Create"}

Rivals(g) ==
    {h \in Creators : SameIgnoringCase(args[h].user.Username, args[g].user.Username)}

\* C22: when the concurrent Create calls on one repository have returned, a
\* call whose name no other call uses (ignoring case) has succeeded and its
\* user is listed; among calls whose names are equal ignoring case exactly
\* one has succeeded and the others have returned ErrUserAlreadyExists.
C22_ConcurrentCreate ==
    (\A g \in Goroutines : pc[g] = "done") =>
        \A g \in Creators :
            /\ Cardinality({h \in Rivals(g) : result[h] = NoError}) = 1
            /\ \A h \in Rivals(g) : result[h] \in {NoError, ErrUserAlreadyExists}
            /\ Rivals(g) = {g} =>
                  /\ result[g] = NoError
                  /\ args[g].user.Username \in List(store.files)
            /\ result[g] = NoError => args[g].user.Username \in List(store.files)

C22_Witness ==
    /\ \A g \in Goroutines : pc[g] = "done"
    /\ Creators = Goroutines
    /\ args[1].user.Username = "alice"
    /\ args[2].user.Username = "bob"
    /\ args[3].user.Username = "Alice"
    /\ result[3] = NoError
    /\ result[1] = ErrUserAlreadyExists
    /\ List(store.files) = {"Alice", "bob"}

-----------------------------------------------------------------------------
(* src/cmd/workout_log.go run by two processes on the file of one user *)

\* Every process has a JSONUserRepository, and so a mutex, of its own: the
\* steps that processes share are the read of the user file in Get and the
\* write of the user file in Update.
Processes == {1, 2}

InitRace ==
    /\ pc = [p \in Processes |-> "load"]
    /\ result = [p \in Processes |-> None]
    /\ store \in StartedUsers
    /\ args \in [Processes -> CycleInputs]

\* logWorkout up to GetCurrentUserWithProgram: the user file is read.
Load(p) ==
    /\ pc[p] = "load"
    /\ result' = [result EXCEPT ![p] = [loaded |-> store, err |-> None]]
    /\ pc' = [pc EXCEPT ![p] = "save"]
    /\ UNCHANGED <<args, store>>

\* logWorkout from CalculateNextWorkout on, computed on the record that was
\* loaded: Update writes the user file when the command succeeds.
Save(p) ==
    /\ pc[p] = "save"
    /\ LET logged == logWorkout(result[p].loaded, args[p].fail, args[p].stdin)
       IN  /\ result' = [result EXCEPT ![p].err = logged.err]
           /\ store' = IF logged.err = NoError THEN logged.user ELSE store
    /\ pc' = [pc EXCEPT ![p] = "done"]
    /\ UNCHANGED args

NextRace == \E p \in Processes : Load(p) \/ Save(p)

SpecRace == InitRace /\ [][NextRace]_vars

\* C30 as claimed: when both processes have loaded the record before either
\* saved it and both have finished, the persisted record holds both logged
\* workouts, its day is advanced twice and both progressions are applied to
\* the weights.
C30_AsClaimed ==
    (/\ \A p \in Processes : pc[p] = "done" /\ result[p].err = NoError
     /\ \A p, q \in Processes : result[p].loaded = result[q].loaded) =>
        LET before == result[1].loaded
            program == GetCurrentUserWithProgram(before)
            day == program.userProgram.CurrentDay
            once == NextDay(day, program.program)
            history == store.WorkoutHistory
        IN  /\ Len(history) = Len(before.WorkoutHistory) + 2
            /\ StoredProgram.CurrentDay =
                  NextDay([program.userProgram EXCEPT !.CurrentDay = once].CurrentDay,
                          program.program)
            /\ StoredProgram.CurrentWeights =
                  CalculateProgression(history[Len(history)],
                      CalculateProgression(history[Len(history) - 1],
                          program.userProgram.CurrentWeights,
                          program.program.ProgressionRules).weights,
                      program.program.ProgressionRules).weights

====
